---- MODULE Spec2Model ----
(***************************************************************************)
(* Zom-B: the combat state machine (lib/combatEngine.ts), its balance      *)
(* formulas (lib/gameBalance.ts) and the host/client session of            *)
(* GameScreen.tsx over services/peerService.ts.                            *)
(*                                                                         *)
(* Numbers.  Math.random() is a roll k standing for k / RandDen, drawn     *)
(* from a small set of representative rolls; chances are percentages and   *)
(* a comparison "Math.random() < chance" is 100 * k < chance * RandDen.    *)
(* The player's hp is stored in half points (Pts(n) = 2n) so that the      *)
(* 37.5 point heal of processUseItem is exact.                             *)
(***************************************************************************)
EXTENDS Integers, Sequences, FiniteSets, TLC

\* ------------------------------------------------------------------ bounds
MaxRound == 1
RandDen == 100
MaxInputs == 2
MaxRequests == 1

\* ------------------------------------------------- GAME_BALANCE (percent)
baseActionPoints == 3
maxActionPoints == 3
baseDamage == 10
damageVariance == 20
criticalHitChance == 10
criticalMultiplier == 150
defenseDamageReduction == 50
fleeBaseChance == 60
baseSuccessChance == 40
bonusPerLevel == 5
maxSkillLevel == 10
critBonus == 15
stunChance == 20
executionChance == 25
jamChance1to3 == 5
jamChance4to7 == 2
headshotBonus == 20
apRefund == TRUE
healingBonus == 50
skillGrowthOnCritical == 1

zombieTypes ==
  [ Walker   |-> [name |-> "Walker",   hp |-> 30, maxHp |-> 30, attack |-> 8,  defense |-> 2],
    Runner   |-> [name |-> "Runner",   hp |-> 20, maxHp |-> 20, attack |-> 12, defense |-> 1],
    Tank     |-> [name |-> "Tank",     hp |-> 80, maxHp |-> 80, attack |-> 15, defense |-> 8],
    Spitter  |-> [name |-> "Spitter",  hp |-> 25, maxHp |-> 25, attack |-> 10, defense |-> 3],
    Screamer |-> [name |-> "Screamer", hp |-> 35, maxHp |-> 35, attack |-> 5,  defense |-> 4] ]

\* ----------------------------------------------------------------- helpers
Max(a, b) == IF a >= b THEN a ELSE b
Min(a, b) == IF a <= b THEN a ELSE b

\* player hit points are stored in half points
Pts(n) == 2 * n

\* Math.random() < chance, Math.random() > chance (chance in percent)
RollBelow(k, chance) == 100 * k < chance * RandDen
RollAbove(k, chance) == 100 * k > chance * RandDen

\* representative rolls: one in every interval cut by the chances above
Rolls == {1, 4, 15, 27, 50, 99}
VarianceRolls == {0, 99}

NoId == "none"
NoAmount == -1

\* ids of enemies made by initiateCombat: `z${index + 1}`
EnemyId(i) == IF i = 1 THEN "z1" ELSE IF i = 2 THEN "z2" ELSE IF i = 3 THEN "z3" ELSE "z4"

NoWeapon == "null"

\* CombatResult: type, success, amount (NoAmount when absent), targetId,
\* targetName and critical (absent: NoId, FALSE)
Res(type, success, amount, targetId) ==
  [type |-> type, success |-> success, amount |-> amount, targetId |-> targetId,
   targetName |-> NoId, critical |-> FALSE]

\* a result that names the enemy; a result that carries the critical flag
Named(res, targetName) == [res EXCEPT !.targetName = targetName]
Critical(res, isCritical) == [res EXCEPT !.critical = isCritical]

\* CombatAction
Act(type, targetId, itemId, direction) ==
  [type |-> type, targetId |-> targetId, itemId |-> itemId, direction |-> direction]

\* Array.prototype.find(e => e.id === id) as an index, 0 when there is none
FindEnemy(enemies, id) ==
  IF \E i \in 1..Len(enemies) : enemies[i].id = id
    THEN CHOOSE i \in 1..Len(enemies) :
           /\ enemies[i].id = id
           /\ \A j \in 1..(i - 1) : enemies[j].id # id
    ELSE 0

\* Array.prototype.indexOf, 0 when absent
IndexOf(seq, x) ==
  IF \E i \in 1..Len(seq) : seq[i] = x
    THEN CHOOSE i \in 1..Len(seq) : seq[i] = x /\ \A j \in 1..(i - 1) : seq[j] # x
    ELSE 0

\* Array.prototype.splice(index, 1)
RemoveAt(seq, i) == SubSeq(seq, 1, i - 1) \o SubSeq(seq, i + 1, Len(seq))

AliveEnemies(enemies) == {i \in 1..Len(enemies) : enemies[i].hp > 0}

\* ------------------------------------------------------- gameBalance.ts
\* calculateDamage that multiplies a critical hit before the defense is taken off
calculateDamage_CriticalFirst(base, targetDefense10, isCritical, k) ==
  LET mult == IF isCritical THEN criticalMultiplier ELSE 100
      varied == base * (100 * RandDen + (2 * k - RandDen) * damageVariance) * mult
      reduced == Max(10000 * RandDen, varied - targetDefense10 * 1000 * RandDen)
  IN reduced \div (1000000 * RandDen)

\* targetDefense is passed in tenths (target.maxHp / 10 need not be whole)
calculateDamage(base, targetDefense10, isCritical, k) ==
  LET varied == base * (100 * RandDen + (2 * k - RandDen) * damageVariance)
      reduced == Max(100 * RandDen, varied - targetDefense10 * 10 * RandDen)
      mult == IF isCritical THEN criticalMultiplier ELSE 100
  IN (reduced * mult) \div (10000 * RandDen)

calculateSkillSuccessChance(skillLevel) ==
  baseSuccessChance + Min(skillLevel, maxSkillLevel) * bonusPerLevel

critChanceFor(skillLevel, skillType) ==
  criticalHitChance
    + (IF skillType = "melee" /\ skillLevel >= 4 /\ skillLevel <= 7 THEN critBonus ELSE 0)
    + (IF skillType = "firearms" /\ skillLevel >= 4 /\ skillLevel <= 7 THEN headshotBonus ELSE 0)

rollCriticalHit(skillLevel, skillType, k) ==
  RollBelow(k, critChanceFor(skillLevel, skillType))

\* ------------------------------------------------------- combatEngine.ts
\* weapon names are classified by substring; over the names the model uses
isFirearm(weaponName) == weaponName \in {"Pistol", "Shotgun"}

\* itemLower.includes('bandage') || includes('medkit') || includes('heal')
isHealingItem(itemId) == itemId \in {"Bandages", "Medkit"}

\* the stun test without toLowerCase(): 'Stunned' does not include 'stun'
isStunned_CaseSensitive(status) == status \in {"stunned"}

\* enemy.status?.toLowerCase().includes('stun')
isStunned(status) == status \in {"Stunned"}

\* new CombatEngine(gameState)
NewCombatState(g) ==
  [phase |-> "player_turn", round |-> 1, playerActionPoints |-> g.actionPoints,
   defendActive |-> FALSE, log |-> 0]

initiateCombat(g, types) ==
  [g EXCEPT !.phase = "combat",
            !.actionPoints = baseActionPoints,
            !.maxActionPoints = maxActionPoints,
            !.enemies = [i \in 1..Len(types) |->
                           [id |-> EnemyId(i), name |-> zombieTypes[types[i]].name,
                            hp |-> zombieTypes[types[i]].hp,
                            maxHp |-> zombieTypes[types[i]].maxHp,
                            status |-> "Active", range |-> "Near"]]]

\* isActionValid without the target.hp <= 0 test
isActionValid_DeadTarget(g, c, action) ==
  /\ c.phase = "player_turn"
  /\ c.playerActionPoints >= 1
  /\ action.type = "attack" =>
       /\ action.targetId # NoId
       /\ FindEnemy(g.enemies, action.targetId) # 0
  /\ action.type = "use_item" =>
       /\ action.itemId # NoId
       /\ IndexOf(g.inventory, action.itemId) # 0

\* isActionValid that only refuses the enemy's turn
isActionValid_TerminalOpen(g, c, action) ==
  /\ c.phase # "enemy_turn"
  /\ c.playerActionPoints >= 1
  /\ action.type = "attack" =>
       /\ action.targetId # NoId
       /\ FindEnemy(g.enemies, action.targetId) # 0
       /\ g.enemies[FindEnemy(g.enemies, action.targetId)].hp > 0
  /\ action.type = "use_item" =>
       /\ action.itemId # NoId
       /\ IndexOf(g.inventory, action.itemId) # 0

isActionValid(g, c, action) ==
  /\ c.phase = "player_turn"
  /\ c.playerActionPoints >= 1
  /\ action.type = "attack" =>
       /\ action.targetId # NoId
       /\ FindEnemy(g.enemies, action.targetId) # 0
       /\ g.enemies[FindEnemy(g.enemies, action.targetId)].hp > 0
  /\ action.type = "use_item" =>
       /\ action.itemId # NoId
       /\ IndexOf(g.inventory, action.itemId) # 0

\* validateAction that tests the phase for an attack only
validateAction_PhaseOfAttackOnly(action, g) ==
  IF g.phase # "combat" /\ action.type = "attack"
    THEN [valid |-> FALSE, reason |-> "Not in combat phase"]
  ELSE IF g.actionPoints < 1
    THEN [valid |-> FALSE, reason |-> "Insufficient action points"]
  ELSE IF action.type = "attack" /\ action.targetId = NoId
    THEN [valid |-> FALSE, reason |-> "No target specified"]
  ELSE IF /\ action.type = "attack"
          /\ \/ FindEnemy(g.enemies, action.targetId) = 0
             \/ g.enemies[FindEnemy(g.enemies, action.targetId)].hp <= 0
    THEN [valid |-> FALSE, reason |-> "Invalid or dead target"]
  ELSE IF action.type = "use_item" /\ action.itemId = NoId
    THEN [valid |-> FALSE, reason |-> "No item specified"]
  ELSE IF action.type = "use_item" /\ IndexOf(g.inventory, action.itemId) = 0
    THEN [valid |-> FALSE, reason |-> "Item not in inventory"]
  ELSE [valid |-> TRUE, reason |-> "none"]

\* MessageValidator.validateAction: the check a client makes before it sends
validateAction(action, g) ==
  IF g.phase # "combat" /\ action.type # "flee"
    THEN [valid |-> FALSE, reason |-> "Not in combat phase"]
  ELSE IF g.actionPoints < 1
    THEN [valid |-> FALSE, reason |-> "Insufficient action points"]
  ELSE IF action.type = "attack" /\ action.targetId = NoId
    THEN [valid |-> FALSE, reason |-> "No target specified"]
  ELSE IF /\ action.type = "attack"
          /\ \/ FindEnemy(g.enemies, action.targetId) = 0
             \/ g.enemies[FindEnemy(g.enemies, action.targetId)].hp <= 0
    THEN [valid |-> FALSE, reason |-> "Invalid or dead target"]
  ELSE IF action.type = "use_item" /\ action.itemId = NoId
    THEN [valid |-> FALSE, reason |-> "No item specified"]
  ELSE IF action.type = "use_item" /\ IndexOf(g.inventory, action.itemId) = 0
    THEN [valid |-> FALSE, reason |-> "Item not in inventory"]
  ELSE [valid |-> TRUE, reason |-> "none"]

Out(g, c, results) == [g |-> g, c |-> c, results |-> results]

\* the part of processAttack after the hit roll succeeded and no execution
attackDamage(g, c, i, isCritical, kVar, kStun) ==
  LET target == g.enemies[i]
      isF == isFirearm(IF g.equippedWeapon = NoWeapon THEN "Fists" ELSE g.equippedWeapon)
      skillName == IF isF THEN "Firearms" ELSE "Melee"
      skillLevel == g.skills[skillName]
      damage == calculateDamage(baseDamage,
                                IF target.maxHp > 50 THEN target.maxHp ELSE 20,
                                isCritical, kVar)
      hp1 == Max(0, target.hp - damage)
      stun == ~isF /\ skillLevel >= 4 /\ skillLevel <= 7 /\ RollBelow(kStun, stunChance)
      refund == hp1 <= 0 /\ isF /\ skillLevel >= 8 /\ apRefund
      grow == isCritical /\ skillLevel < maxSkillLevel
      g1 == [g EXCEPT !.enemies[i].hp = hp1,
                      !.enemies[i].status = IF stun THEN "Stunned" ELSE @,
                      !.skills[skillName] = IF grow THEN skillLevel + skillGrowthOnCritical ELSE @]
      c1 == [c EXCEPT !.playerActionPoints =
                        IF refund THEN Min(@ + 1, maxActionPoints) ELSE @]
  IN Out(g1, c1,
         <<Critical(Named(Res("damage", TRUE, damage, target.id), target.name), isCritical)>>
           \o (IF stun THEN <<Named(Res("stun", TRUE, NoAmount, target.id), target.name)>>
                       ELSE <<>>)
           \o (IF refund THEN <<Res("ap_refund", TRUE, NoAmount, NoId)>> ELSE <<>>)
           \o (IF grow THEN <<Res("skill_increase", TRUE, NoAmount, NoId)>> ELSE <<>>))

\* the set of outcomes of processAttack, one per combination of the rolls
\* the code draws on the path taken
processAttack(g, c, targetId) ==
  LET i == FindEnemy(g.enemies, targetId) IN
  IF i = 0 THEN {Out(g, c, <<>>)}
  ELSE
    LET target == g.enemies[i]
        isF == isFirearm(IF g.equippedWeapon = NoWeapon THEN "Fists" ELSE g.equippedWeapon)
        skillType == IF isF THEN "firearms" ELSE "melee"
        skillLevel == g.skills[IF isF THEN "Firearms" ELSE "Melee"]
        jamChance == IF skillLevel <= 3 THEN jamChance1to3 ELSE jamChance4to7
        rollsJam == isF /\ skillLevel <= 7
        rollsStun == ~isF /\ skillLevel >= 4 /\ skillLevel <= 7
        afterCrit(isCritical) ==
          LET rollsExec == ~isF /\ skillLevel >= 8 /\ isCritical IN
          UNION { IF rollsExec /\ RollBelow(kExec, executionChance)
                    THEN {Out([g EXCEPT !.enemies[i].hp = 0], c,
                              <<Critical(Named(Res("execution", TRUE, NoAmount, targetId),
                                               target.name), TRUE)>>)}
                    ELSE {attackDamage(g, c, i, isCritical, kVar, kStun) :
                            kVar \in VarianceRolls,
                            kStun \in (IF rollsStun THEN Rolls ELSE {0})}
                  : kExec \in (IF rollsExec THEN Rolls ELSE {0}) }
        afterJam ==
          UNION { IF RollAbove(kHit, calculateSkillSuccessChance(skillLevel))
                    THEN {Out(g, c, <<Named(Res("damage", FALSE, NoAmount, targetId),
                                            target.name)>>)}
                    ELSE UNION { afterCrit(rollCriticalHit(skillLevel, skillType, kCrit))
                                 : kCrit \in Rolls }
                  : kHit \in Rolls }
    IN UNION { IF rollsJam /\ RollBelow(kJam, jamChance)
                 THEN {Out(g, c, <<Res("jam", FALSE, NoAmount, NoId)>>)}
                 ELSE afterJam
               : kJam \in (IF rollsJam THEN Rolls ELSE {0}) }

processDefend(g, c) ==
  {Out(g, [c EXCEPT !.defendActive = TRUE], <<Res("defend", TRUE, NoAmount, NoId)>>)}

\* processUseItem that leaves the item used in the inventory
processUseItem_KeepsItem(g, c, itemId) ==
  IF isHealingItem(itemId)
    THEN LET healAmount == IF g.skills["Medical"] >= 4
                             THEN (Pts(25) * (100 + healingBonus)) \div 100
                             ELSE Pts(25)
         IN {Out([g EXCEPT !.hp = Min(g.maxHp, g.hp + healAmount)],
                 c, <<Res("heal", TRUE, healAmount, NoId)>>)}
    ELSE {Out(g, c, <<Res("heal", FALSE, NoAmount, NoId)>>)}

\* processUseItem that removes every occurrence of the item used
processUseItem_RemovesAll(g, c, itemId) ==
  IF isHealingItem(itemId)
    THEN LET healAmount == IF g.skills["Medical"] >= 4
                             THEN (Pts(25) * (100 + healingBonus)) \div 100
                             ELSE Pts(25)
             differs(held) == held # itemId
         IN {Out([g EXCEPT !.hp = Min(g.maxHp, g.hp + healAmount),
                           !.inventory = SelectSeq(@, differs)],
                 c, <<Res("heal", TRUE, healAmount, NoId)>>)}
    ELSE {Out(g, c, <<Res("heal", FALSE, NoAmount, NoId)>>)}

\* the heal amount is in half points, as the player's hp
processUseItem(g, c, itemId) ==
  IF isHealingItem(itemId)
    THEN LET healAmount == IF g.skills["Medical"] >= 4
                             THEN (Pts(25) * (100 + healingBonus)) \div 100
                             ELSE Pts(25)
             index == IndexOf(g.inventory, itemId)
         IN {Out([g EXCEPT !.hp = Min(g.maxHp, g.hp + healAmount),
                           !.inventory = IF index > 0 THEN RemoveAt(@, index) ELSE @],
                 c, <<Res("heal", TRUE, healAmount, NoId)>>)}
    ELSE {Out(g, c, <<Res("heal", FALSE, NoAmount, NoId)>>)}

processFlee(g, c) ==
  { IF RollBelow(k, fleeBaseChance)
      THEN Out([g EXCEPT !.phase = "exploration", !.enemies = <<>>],
               [c EXCEPT !.phase = "fled"],
               <<Res("flee_success", TRUE, NoAmount, NoId)>>)
      ELSE Out(g, c, <<Res("flee_fail", FALSE, NoAmount, NoId)>>)
    : k \in Rolls }

moveRange(range, direction) ==
  IF direction = "closer"
    THEN (IF range = "Far" THEN "Near" ELSE IF range = "Near" THEN "Melee" ELSE range)
    ELSE (IF range = "Melee" THEN "Near" ELSE IF range = "Near" THEN "Far" ELSE range)

processMove(g, c, direction) ==
  {Out([g EXCEPT !.enemies = [i \in 1..Len(g.enemies) |->
                                [g.enemies[i] EXCEPT !.range = moveRange(@, direction)]]],
       c, <<Res("move", TRUE, NoAmount, NoId)>>)}

endPlayerTurn(c) == [c EXCEPT !.phase = "enemy_turn"]

\* the damage one enemy deals in the enemy turn, for the variance roll k
enemyDamage(enemy, defendActive, k) ==
  LET base == IF enemy.maxHp > 50 THEN 15 ELSE 8
      defended == IF defendActive
                    THEN (base * (100 - defenseDamageReduction)) \div 100
                    ELSE base
      varied == (defended * (8 * RandDen + 4 * k)) \div (10 * RandDen)
  IN Max(1, varied)

\* enemyAttacks that forgets the reduction for a defending player
RECURSIVE enemyAttacks_IgnoresDefend(_, _, _)
enemyAttacks_IgnoresDefend(g, c, i) ==
  IF i > Len(g.enemies) THEN {Out(g, c, <<>>)}
  ELSE IF g.enemies[i].hp <= 0 THEN enemyAttacks_IgnoresDefend(g, c, i + 1)
  ELSE IF isStunned(g.enemies[i].status)
    THEN { [o EXCEPT !.results =
                       <<Named(Res("enemy_attack", FALSE, NoAmount, NoId), g.enemies[i].name)>>
                         \o @]
           : o \in enemyAttacks_IgnoresDefend([g EXCEPT !.enemies[i].status = "Active"], c, i + 1) }
    ELSE UNION {
           LET base == IF g.enemies[i].maxHp > 50 THEN 15 ELSE 8
               varied == (base * (8 * RandDen + 4 * k)) \div (10 * RandDen)
               damage == Max(1, varied)
           IN { [o EXCEPT !.results =
                           <<Named(Res("enemy_attack", TRUE, damage, NoId), g.enemies[i].name)>>
                             \o @]
                : o \in enemyAttacks_IgnoresDefend([g EXCEPT !.hp = Max(0, @ - Pts(damage))],
                                                c, i + 1) }
           : k \in VarianceRolls }

\* the enemies from index i on act in turn on g; one outcome per variance roll
RECURSIVE enemyAttacks(_, _, _)
enemyAttacks(g, c, i) ==
  IF i > Len(g.enemies) THEN {Out(g, c, <<>>)}
  ELSE IF g.enemies[i].hp <= 0 THEN enemyAttacks(g, c, i + 1)
  ELSE IF isStunned(g.enemies[i].status)
    THEN { [o EXCEPT !.results =
                       <<Named(Res("enemy_attack", FALSE, NoAmount, NoId), g.enemies[i].name)>>
                         \o @]
           : o \in enemyAttacks([g EXCEPT !.enemies[i].status = "Active"], c, i + 1) }
    ELSE UNION {
           LET damage == enemyDamage(g.enemies[i], c.defendActive, k)
           IN { [o EXCEPT !.results =
                           <<Named(Res("enemy_attack", TRUE, damage, NoId), g.enemies[i].name)>>
                             \o @]
                : o \in enemyAttacks([g EXCEPT !.hp = Max(0, @ - Pts(damage))], c, i + 1) }
           : k \in VarianceRolls }

\* processEnemyTurn that leaves the defending flag as it is
processEnemyTurn_KeepsDefending(g, c) ==
  { Out([o.g EXCEPT !.actionPoints = baseActionPoints],
        [o.c EXCEPT !.round = @ + 1,
                    !.phase = "player_turn",
                    !.playerActionPoints = baseActionPoints],
        o.results)
    : o \in enemyAttacks(g, c, 1) }

\* processEnemyTurn that forgets to start a new round
processEnemyTurn_SameRound(g, c) ==
  { Out([o.g EXCEPT !.actionPoints = baseActionPoints],
        [o.c EXCEPT !.defendActive = FALSE,
                    !.phase = "player_turn",
                    !.playerActionPoints = baseActionPoints],
        o.results)
    : o \in enemyAttacks(g, c, 1) }

processEnemyTurn(g, c) ==
  { Out([o.g EXCEPT !.actionPoints = baseActionPoints],
        [o.c EXCEPT !.defendActive = FALSE,
                    !.round = @ + 1,
                    !.phase = "player_turn",
                    !.playerActionPoints = baseActionPoints],
        o.results)
    : o \in enemyAttacks(g, c, 1) }

\* checkCombatEnd that keeps the dead enemies on victory
checkCombatEnd_KeepsEnemies(g, c) ==
  IF g.hp <= 0
    THEN [g |-> [g EXCEPT !.phase = "exploration"], c |-> [c EXCEPT !.phase = "defeat"]]
  ELSE IF AliveEnemies(g.enemies) = {}
    THEN [g |-> [g EXCEPT !.phase = "exploration"], c |-> [c EXCEPT !.phase = "victory"]]
  ELSE [g |-> g, c |-> c]

\* checkCombatEnd that tests hp < 0 for defeat
checkCombatEnd_ZeroHpAlive(g, c) ==
  IF g.hp < 0
    THEN [g |-> [g EXCEPT !.phase = "exploration"], c |-> [c EXCEPT !.phase = "defeat"]]
  ELSE IF AliveEnemies(g.enemies) = {}
    THEN [g |-> [g EXCEPT !.phase = "exploration", !.enemies = <<>>],
          c |-> [c EXCEPT !.phase = "victory"]]
  ELSE [g |-> g, c |-> c]

checkCombatEnd(g, c) ==
  IF g.hp <= 0
    THEN [g |-> [g EXCEPT !.phase = "exploration"], c |-> [c EXCEPT !.phase = "defeat"]]
  ELSE IF AliveEnemies(g.enemies) = {}
    THEN [g |-> [g EXCEPT !.phase = "exploration", !.enemies = <<>>],
          c |-> [c EXCEPT !.phase = "victory"]]
  ELSE [g |-> g, c |-> c]

InvalidResult == Res("damage", FALSE, NoAmount, NoId)

dispatch(g, c, action) ==
  CASE action.type = "attack" -> processAttack(g, c, action.targetId)
    [] action.type = "defend" -> processDefend(g, c)
    [] action.type = "use_item" -> processUseItem(g, c, action.itemId)
    [] action.type = "flee" -> processFlee(g, c)
    [] action.type = "move" -> processMove(g, c, action.direction)

\* what a call returns, with what it did to the objects the GameState refers
\* to: mutated has the enemies, inventory and skills as the call changed them
\* in place, reassigned tells that the call gave the engine a new enemies array
Ret(g, c, results, accepted, ap) ==
  [g |-> g, c |-> c, results |-> results, accepted |-> accepted, apAfterDeduct |-> ap,
   mutated |-> g, reassigned |-> FALSE]

\* an early return that has already charged the action point
rejectAction_DeductsAP(g, c) ==
  Ret(g, [c EXCEPT !.playerActionPoints = @ - 1], <<InvalidResult>>, FALSE,
      c.playerActionPoints - 1)

\* the early return of processAction for an invalid action
rejectAction(g, c) ==
  Ret(g, c, <<InvalidResult>>, FALSE, c.playerActionPoints)

\* action.type !== 'flee' || results[0]?.type !== 'flee_success', negated
fleeSucceeded(action, res) ==
  action.type = "flee" /\ Len(res) > 0 /\ res[1].type = "flee_success"

\* a deduction that is not copied into the GameState
deductActionPoint_CombatStateOnly(o, action) ==
  IF fleeSucceeded(action, o.results)
    THEN o
    ELSE Out(o.g, [o.c EXCEPT !.playerActionPoints = @ - 1], o.results)

\* a deduction that lets every failed action go free, not only no flee
deductActionPoint_FailuresFree(o, action) ==
  IF fleeSucceeded(action, o.results) \/ (Len(o.results) > 0 /\ ~o.results[1].success)
    THEN o
    ELSE Out([o.g EXCEPT !.actionPoints = o.c.playerActionPoints - 1],
             [o.c EXCEPT !.playerActionPoints = @ - 1], o.results)

\* the deduction of the action point, and its copy into the GameState
deductActionPoint(o, action) ==
  IF fleeSucceeded(action, o.results)
    THEN o
    ELSE Out([o.g EXCEPT !.actionPoints = o.c.playerActionPoints - 1],
             [o.c EXCEPT !.playerActionPoints = @ - 1], o.results)

\* the outcomes of one processAction call: the states and results returned,
\* whether the action was accepted, and the AP right after the deduction
processAction(g, c, action) ==
  IF ~isActionValid(g, c, action)
    THEN {rejectAction(g, c)}
    ELSE UNION {
      LET d == deductActionPoint(o, action)
          turn == IF d.c.playerActionPoints <= 0
                    THEN processEnemyTurn(d.g, endPlayerTurn(d.c))
                    ELSE {Out(d.g, d.c, <<>>)}
      IN { LET e == checkCombatEnd(t.g, t.c)
               all == o.results \o t.results
           IN [Ret(e.g, [e.c EXCEPT !.log = @ + Len(all)], all, TRUE,
                   d.c.playerActionPoints)
                 EXCEPT !.mutated = IF fleeSucceeded(action, o.results) THEN g ELSE t.g,
                        !.reassigned = \/ fleeSucceeded(action, o.results)
                                       \/ t.g.hp > 0 /\ AliveEnemies(t.g.enemies) = {}]
           : t \in turn }
      : o \in dispatch(g, c, action) }

\* ------------------------------------------------------------ combat state
VARIABLES gameState, combatState, results, accepted, apAfterDeduct

combatVars == <<gameState, combatState, results, accepted, apAfterDeduct>>

\* the GameStates combat is started from: INITIAL_GAME_STATE with the player's
\* hp, weapon and skills varied, and the zombie types of the encounter
Skills(melee, firearms, medical) ==
  [Melee |-> melee, Firearms |-> firearms, Medical |-> medical]

BaseGameState(hp, weapon, skills) ==
  [hp |-> Pts(hp), maxHp |-> Pts(100),
   inventory |-> <<"Flashlight", "Rusty Pipe", "Bandages">>,
   equippedWeapon |-> weapon, skills |-> skills, phase |-> "exploration",
   actionPoints |-> 3, maxActionPoints |-> 3, enemies |-> <<>>]

Encounters ==
  { <<BaseGameState(100, "Rusty Pipe", Skills(1, 1, 1)), <<"Walker">> >>,
    <<[BaseGameState(90, "Pistol", Skills(1, 5, 4))
         EXCEPT !.inventory = <<"Bandages", "Flashlight", "Bandages">>], <<"Runner">> >>,
    <<BaseGameState(12, "Pistol", Skills(1, 9, 1)), <<"Runner", "Walker">> >>,
    <<BaseGameState(100, "Rusty Pipe", Skills(5, 1, 1)), <<"Runner">> >>,
    <<BaseGameState(20, "Rusty Pipe", Skills(9, 1, 4)), <<"Tank">> >>,
    <<BaseGameState(100, NoWeapon, Skills(10, 10, 1)), <<"Screamer">> >> }

Actions ==
  {Act("attack", t, NoId, NoId) : t \in {"z1", "z2", "z9", NoId}}
    \cup {Act("defend", NoId, NoId, NoId), Act("flee", NoId, NoId, NoId)}
    \cup {Act("use_item", NoId, it, NoId) : it \in {"Bandages", "Flashlight", "Medkit", NoId}}
    \cup {Act("move", NoId, NoId, d) : d \in {"closer", "away"}}

InitCombat ==
  /\ \E e \in Encounters :
       /\ gameState = initiateCombat(e[1], e[2])
       /\ combatState = NewCombatState(initiateCombat(e[1], e[2]))
  /\ results = <<>>
  /\ accepted = FALSE
  /\ apAfterDeduct = combatState.playerActionPoints

\* GameStates an engine is constructed from in the middle of a game: the
\* untouched INITIAL_GAME_STATE, a combat with no action point left, a
\* combat with a dead and a live enemy, and the start of a later round of a
\* marksman's combat with a wounded enemy
MidGameStates ==
  LET fight == initiateCombat(BaseGameState(60, "Rusty Pipe", Skills(1, 1, 1)),
                              <<"Runner", "Walker">>)
      shootout == initiateCombat(BaseGameState(60, "Pistol", Skills(1, 9, 1)),
                                 <<"Runner", "Walker">>)
  IN { BaseGameState(100, "Rusty Pipe", Skills(1, 1, 1)),
       [fight EXCEPT !.actionPoints = 0],
       [fight EXCEPT !.actionPoints = 1, !.enemies[1].hp = 0],
       [shootout EXCEPT !.enemies[1].hp = 5] }

InitMidGame ==
  /\ \E g \in MidGameStates :
       /\ gameState = g
       /\ combatState = NewCombatState(g)
  /\ results = <<>>
  /\ accepted = FALSE
  /\ apAfterDeduct = combatState.playerActionPoints

\* ----------------------------- rotjsIntegration.ts, worldStateManager.ts
\* The state of the world code; its operations follow the session's.
VARIABLES
  worldState,     \* WorldStateManager.worldState
  visionRadius,   \* WorldStateManager.visionRadius
  rng,            \* the state of the shared generator ROT.RNG
  now,            \* Date.now()
  generated,      \* the last direct call of a world generator: its arguments
                  \* and result, the generator's state and the time it was
                  \* made at, and whether both differ from the call before
  earlier,        \* the arguments and result of the direct call before it
  query           \* the last findPath / hasLineOfSight call and its result

worldVars == <<worldState, visionRadius, rng, now, generated, earlier, query>>

\* ---------------------------------------- stateless functions called directly
VARIABLES
  invoked,        \* the last direct call: the function's name and its arguments
  returned        \* what that call returned

libraryVars == <<invoked, returned>>

\* ------------------------------------------------------ explorationSystem.ts
VARIABLES
  exploration     \* the ExplorationSystem: currentLevel, stepsExplored, and the
                  \* last call of explore with what it returned

explorationVars == <<exploration>>

\* --------------------------- combatEngine.ts: ConnectionMonitor, ActionQueue
VARIABLES
  monitor,        \* a ConnectionMonitor: lastPingTime and lastPongTime, with
                  \* the times of the pings no pong has answered yet and of
                  \* the ping the last pong answered (none before a pong)
  actionQueue     \* an ActionQueue: queue and pendingActionId

protocolVars == <<monitor, actionQueue>>

\* ------------------------------------- combatEngine.ts: the engine's caller
VARIABLES
  held            \* the GameStates the caller of a CombatEngine holds, as they
                  \* read now: the one passed to the constructor (linked: its
                  \* enemies array is still the engine's) and the one returned last

serviceVars == <<explorationVars, protocolVars, held>>

\* ------------------------------------------- GameScreen.tsx, peerService.ts
\* The host's and the client's GameScreen.  A GameState is a token (0 is
\* INITIAL_GAME_STATE), a chat message is [role, text].
VARIABLES
  conn,               \* "waiting" (no client yet), "open", "closed"
  toHost, toClient,   \* packets in flight on the data connection, in order
  hostGameState, hostMessages, hostIsProcessing,
  pendingCalls,       \* sendGameAction calls the host is awaiting
  calls,              \* number of sendGameAction calls made so far
  clientGameState, clientMessages, clientIsProcessing,
  inputs, requests,   \* inputs taken up and STATE_REQUESTs sent so far
  lastHostRecv        \* the last packet the host's listener got, and the
                      \* number of STATE_SYNCs the host sent in answer

sessionVars ==
  <<conn, toHost, toClient, hostGameState, hostMessages, hostIsProcessing,
    pendingCalls, calls, clientGameState, clientMessages, clientIsProcessing,
    inputs, requests, lastHostRecv>>

\* what a player types: nothing, or a text no other input has (the code looks
\* at a text only to see whether it is blank)
Text(who, n) == [by |-> who, n |-> n]
NoText == Text("nobody", 0)
Typed(who) == {Text(who, inputs + 1), NoText}

\* the GameState a reply to call number id carries, when it carries one
NewState(id) == id + 1
NoState == -1

Msg(role, text) == [role |-> role, text |-> text]

StateSync(g, m) == [type |-> "STATE_SYNC", gameState |-> g, messages |-> m]

\* StateSyncManager.handleSync: the host's state is always taken
handleSync(currentState, incomingState) ==
  [shouldUpdate |-> TRUE, state |-> incomingState]

\* PeerService.send: the packet is handed to the connection only if it is open
send(channel, data) == IF conn = "open" THEN Append(channel, data) ELSE channel

\* actionText.trim() is empty
isBlank(text) == text = NoText

InitSession ==
  /\ conn \in {"waiting", "open"}
  /\ toHost = <<>>
  /\ toClient = send(<<>>, StateSync(0, <<>>))
  /\ hostGameState = 0
  /\ hostMessages = <<>>
  /\ hostIsProcessing = TRUE
  /\ pendingCalls = {[id |-> 0, kind |-> "init", text |-> Text("init", 0)]}
  /\ calls = 1
  /\ clientGameState = 0
  /\ clientMessages = <<>>
  /\ clientIsProcessing = FALSE
  /\ inputs = 0
  /\ requests = 0
  /\ lastHostRecv = [type |-> "none", syncs |-> 0]

\* the host / solo branch of handleSend after its guard: the user message is
\* appended, the flag set and sendGameAction awaited; the broadcast effect
\* then pushes the changed message list to the client
hostStartAction(text) ==
  /\ hostMessages' = Append(hostMessages, Msg("user", text))
  /\ hostIsProcessing' = TRUE
  /\ pendingCalls' = pendingCalls \cup {[id |-> calls, kind |-> "action", text |-> text]}
  /\ calls' = calls + 1
  /\ toClient' = send(toClient, StateSync(hostGameState, hostMessages'))
  /\ UNCHANGED hostGameState

\* the host player submits an input: handleSend of the current render
HostSend ==
  /\ inputs < MaxInputs
  /\ \E text \in Typed("host") :
       IF isBlank(text) \/ hostIsProcessing
         THEN UNCHANGED <<hostMessages, hostIsProcessing, pendingCalls, calls,
                          toClient, hostGameState, inputs>>
         ELSE hostStartAction(text) /\ inputs' = inputs + 1
  /\ UNCHANGED <<combatVars, worldVars, libraryVars, serviceVars>>
  /\ UNCHANGED <<conn, toHost, clientGameState, clientMessages, clientIsProcessing,
                 requests, lastHostRecv>>

\* the host's listener, registered once by the initialization effect: it calls
\* the handleSend of the first render, in which isProcessing is false
HostOnData ==
  /\ conn = "open"
  /\ toHost # <<>>
  /\ toHost' = Tail(toHost)
  /\ LET data == Head(toHost) IN
       IF data.type = "ACTION" /\ ~isBlank(data.text)
         THEN /\ hostStartAction(data.text)
              /\ lastHostRecv' = [type |-> data.type, syncs |-> Len(toClient') - Len(toClient)]
         ELSE /\ UNCHANGED <<hostMessages, hostIsProcessing, pendingCalls, calls,
                             toClient, hostGameState>>
              /\ lastHostRecv' = [type |-> data.type, syncs |-> 0]
  /\ UNCHANGED <<combatVars, worldVars, libraryVars, serviceVars>>
  /\ UNCHANGED <<conn, clientGameState, clientMessages, clientIsProcessing,
                 inputs, requests>>

\* a sendGameAction call settles: with a reply carrying a new state or none,
\* or with an error
CallSettles ==
  \E call \in pendingCalls :
    /\ pendingCalls' = pendingCalls \ {call}
    /\ hostIsProcessing' = FALSE
    /\ \/ \E newState \in {NewState(call.id), NoState} :
            /\ hostMessages' = IF call.kind = "init"
                                 THEN <<Msg("model", call.text)>>
                                 ELSE Append(hostMessages, Msg("model", call.text))
            /\ hostGameState' = IF newState # NoState THEN newState ELSE hostGameState
            /\ toClient' = send(toClient, StateSync(hostGameState', hostMessages'))
       \/ /\ hostMessages' = IF call.kind = "init"
                               THEN hostMessages
                               ELSE Append(hostMessages, Msg("system", call.text))
          /\ hostGameState' = hostGameState
          /\ toClient' = IF call.kind = "init"
                           THEN toClient
                           ELSE send(toClient, StateSync(hostGameState', hostMessages'))
    /\ UNCHANGED <<combatVars, worldVars, libraryVars, serviceVars>>
  /\ UNCHANGED <<conn, toHost, calls, clientGameState, clientMessages,
                   clientIsProcessing, inputs, requests, lastHostRecv>>

\* the client player submits an input: the client branch of handleSend
ClientSend ==
  /\ conn # "waiting"
  /\ inputs < MaxInputs
  /\ \E text \in Typed("client") :
       IF isBlank(text) \/ clientIsProcessing
         THEN UNCHANGED <<clientIsProcessing, toHost, inputs>>
         ELSE /\ clientIsProcessing' = TRUE
              /\ toHost' = send(toHost, [type |-> "ACTION", text |-> text])
              /\ inputs' = inputs + 1
  /\ UNCHANGED <<combatVars, worldVars, libraryVars, serviceVars>>
  /\ UNCHANGED <<conn, toClient, hostGameState, hostMessages, hostIsProcessing,
                 pendingCalls, calls, clientGameState, clientMessages, requests,
                 lastHostRecv>>

\* the client asks for a resync, as the troubleshooting guide tells it to
ClientRequestsState ==
  /\ conn = "open"
  /\ requests < MaxRequests
  /\ requests' = requests + 1
  /\ toHost' = send(toHost, [type |-> "STATE_REQUEST", reason |-> "out_of_sync"])
  /\ UNCHANGED <<combatVars, worldVars, libraryVars, serviceVars>>
  /\ UNCHANGED <<conn, toClient, hostGameState, hostMessages, hostIsProcessing,
                 pendingCalls, calls, clientGameState, clientMessages,
                 clientIsProcessing, inputs, lastHostRecv>>

\* a listener that keeps its own state when it is the later one
ClientOnData_KeepsNewer ==
  /\ conn = "open"
  /\ toClient # <<>>
  /\ toClient' = Tail(toClient)
  /\ IF Head(toClient).type = "STATE_SYNC"
       THEN /\ clientGameState' = Max(clientGameState, Head(toClient).gameState)
            /\ clientMessages' = Head(toClient).messages
            /\ clientIsProcessing' = FALSE
       ELSE UNCHANGED <<clientGameState, clientMessages, clientIsProcessing>>
  /\ UNCHANGED <<combatVars, worldVars, libraryVars, serviceVars>>
  /\ UNCHANGED <<conn, toHost, hostGameState, hostMessages, hostIsProcessing,
                 pendingCalls, calls, inputs, requests, lastHostRecv>>

\* the client's listener
ClientOnData ==
  /\ conn = "open"
  /\ toClient # <<>>
  /\ toClient' = Tail(toClient)
  /\ IF Head(toClient).type = "STATE_SYNC"
       THEN /\ clientGameState' = Head(toClient).gameState
            /\ clientMessages' = Head(toClient).messages
            /\ clientIsProcessing' = FALSE
       ELSE UNCHANGED <<clientGameState, clientMessages, clientIsProcessing>>
  /\ UNCHANGED <<combatVars, worldVars, libraryVars, serviceVars>>
  /\ UNCHANGED <<conn, toHost, hostGameState, hostMessages, hostIsProcessing,
                 pendingCalls, calls, inputs, requests, lastHostRecv>>

\* a client's connection opens on the host after the host's GameScreen has
\* mounted: initHost keeps accepting connections, and the start button asks
\* only that a handshake was seen once (joinGame, then a new client GameScreen)
ClientJoins ==
  /\ conn = "waiting"
  /\ conn' = "open"
  /\ UNCHANGED <<combatVars, worldVars, libraryVars, serviceVars>>
  /\ UNCHANGED <<toHost, toClient, hostGameState, hostMessages, hostIsProcessing,
                 pendingCalls, calls, clientGameState, clientMessages,
                 clientIsProcessing, inputs, requests, lastHostRecv>>

\* the data connection closes; what was in flight is lost
ConnectionCloses ==
  /\ conn = "open"
  /\ conn' = "closed"
  /\ toHost' = <<>>
  /\ toClient' = <<>>
  /\ UNCHANGED <<combatVars, worldVars, libraryVars, serviceVars>>
  /\ UNCHANGED <<hostGameState, hostMessages, hostIsProcessing, pendingCalls, calls,
                 clientGameState, clientMessages, clientIsProcessing, inputs,
                 requests, lastHostRecv>>

\* ------------------------------------------------------ rotjsIntegration.ts
\* rot-js itself is not part of the repository.  Its generator ROT.RNG is a
\* state that setSeed sets and every draw advances; the map builders
\* (ROT.Map.Digger, ROT.Map.Cellular) are functions of the draws they make.
RngPeriod == 7

Pos(x, y) == [x |-> x, y |-> y]

Cells(width, height) == {Pos(x, y) : x \in 0..(width - 1), y \in 0..(height - 1)}

\* a tile as the generators create it; resources is optional in the source
NoResources == <<>>
NewTile(type) ==
  [type |-> type, explored |-> FALSE, visible |-> FALSE, resources |-> NoResources]

\* ROT.RNG.setSeed
setSeed(seed) == seed % RngPeriod

\* ROT.RNG.getUniformInt(lo, hi) in state s: the value drawn and the next state
getUniformInt(s, lo, hi) ==
  [value |-> lo + (s % (hi - lo + 1)), rng |-> (3 * s + 1) % RngPeriod]

\* a string is the sequence of its characters
Digits == <<"0", "1", "2", "3", "4", "5", "6", "7", "8", "9">>
isDigit(ch) == \E i \in 1..10 : Digits[i] = ch
digitValue(ch) == (CHOOSE i \in 1..10 : Digits[i] = ch) - 1

NaN == -1

RECURSIVE parseDigits(_, _)
parseDigits(str, acc) ==
  IF str = <<>> \/ ~isDigit(Head(str))
    THEN acc
    ELSE parseDigits(Tail(str), 10 * acc + digitValue(Head(str)))

\* parseFloat on strings without sign, point or exponent: the number its
\* leading digits spell, NaN when it starts with none
parseFloat(str) ==
  IF str = <<>> \/ ~isDigit(Head(str)) THEN NaN ELSE parseDigits(str, 0)

RECURSIVE toString(_)
toString(n) ==
  IF n < 10 THEN <<Digits[n + 1]>> ELSE Append(toString(n \div 10), Digits[(n % 10) + 1])

defaultSeed == 12345

\* seed || Date.now().toString(): the empty string is falsy
actualSeedOf(seed, t) == IF seed = <<>> THEN toString(t) ELSE seed

\* parseFloat(actualSeed) || 12345: NaN and 0 are falsy
seedNumber(actualSeed) ==
  IF parseFloat(actualSeed) \in {NaN, 0} THEN defaultSeed ELSE parseFloat(actualSeed)

resourceTypes == <<"Scrap Metal", "Canned Food", "Bandages", "Ammo">>

\* ROT.Map.Digger: create reports 0 (dug) or 1 for every cell, and the one
\* room has a door and a centre, all a function of the generator's state
digger(width, height, s) ==
  LET dx == getUniformInt(s, 0, width - 1)
      dy == getUniformInt(dx.rng, 0, height - 1)
      cx == getUniformInt(dy.rng, 0, width - 1)
      cy == getUniformInt(cx.rng, 0, height - 1)
  IN [value |-> [p \in Cells(width, height) |->
                   IF (s + p.x + 2 * p.y) % 3 = 0 THEN 1 ELSE 0],
      door |-> Pos(dx.value, dy.value),
      center |-> Pos(cx.value, cy.value),
      rng |-> cy.rng]

\* generateProceduralWorld without the reseeding
generateProceduralWorld_KeepsRng(width, height, seed, s, t) ==
  LET actualSeed == actualSeedOf(seed, t)
      dug == digger(width, height, s)
      r == getUniformInt(dug.rng, 0, Len(resourceTypes) - 1)
      typed == [p \in Cells(width, height) |->
                  NewTile(IF p = dug.door THEN "door"
                          ELSE IF dug.value[p] = 0 THEN "floor" ELSE "wall")]
  IN [world |-> [width |-> width, height |-> height, seed |-> actualSeed,
                 tiles |-> [typed EXCEPT ![dug.center].resources =
                                            <<resourceTypes[r.value + 1]>>]],
      rng |-> r.rng]

generateProceduralWorld(width, height, seed, s, t) ==
  LET actualSeed == actualSeedOf(seed, t)
      dug == digger(width, height, setSeed(seedNumber(actualSeed)))
      r == getUniformInt(dug.rng, 0, Len(resourceTypes) - 1)
      typed == [p \in Cells(width, height) |->
                  NewTile(IF p = dug.door THEN "door"
                          ELSE IF dug.value[p] = 0 THEN "floor" ELSE "wall")]
  IN [world |-> [width |-> width, height |-> height, seed |-> actualSeed,
                 tiles |-> [typed EXCEPT ![dug.center].resources =
                                            <<resourceTypes[r.value + 1]>>]],
      rng |-> r.rng]

\* "Add buildings randomly": the i-th of the ten draws and those after it
RECURSIVE addBuildings(_, _, _, _, _)
addBuildings(tiles, width, height, s, i) ==
  IF i >= 10
    THEN [tiles |-> tiles, rng |-> s]
    ELSE LET x == getUniformInt(s, 1, width - 2)
             y == getUniformInt(x.rng, 1, height - 2)
             p == Pos(x.value, y.value)
         IN addBuildings(IF tiles[p].type = "grass"
                           THEN [tiles EXCEPT ![p].type = "building",
                                              ![p].resources =
                                                <<"Medical Supplies", "Tools", "Food">>]
                           ELSE tiles,
                         width, height, y.rng, i + 1)

\* ROT.Map.Cellular after randomize and its generations: 1 (alive) or 0 for
\* every cell, a function of the generator's state, which it advances
cellular(width, height, s) ==
  [value |-> [p \in Cells(width, height) |->
                IF (2 * s + p.x + p.y) % 4 = 0 THEN 0 ELSE 1],
   rng |-> getUniformInt(s, 0, 1).rng]

generateCellularWorld(width, height, seed, s, t) ==
  LET actualSeed == actualSeedOf(seed, t)
      grown == cellular(width, height, setSeed(seedNumber(actualSeed)))
      typed == [p \in Cells(width, height) |->
                  NewTile(IF grown.value[p] = 1 THEN "grass" ELSE "water")]
      built == addBuildings(typed, width, height, grown.rng, 0)
  IN [world |-> [width |-> width, height |-> height, seed |-> actualSeed,
                 tiles |-> built.tiles],
      rng |-> built.rng]

Abs(n) == IF n < 0 THEN -n ELSE n

inBounds(world, p) ==
  p.x >= 0 /\ p.y >= 0 /\ p.x < world.width /\ p.y < world.height

\* the lightPasses callback of calculateFOV and hasLineOfSight
lightPasses(world, p) == inBounds(world, p) /\ world.tiles[p].type # "wall"

\* the passableCallback of findPath
passableCallback(world, p) ==
  inBounds(world, p) /\ world.tiles[p].type \notin {"wall", "water"}

\* the cells strictly between a and b that the straight segment from the
\* centre of a to the centre of b runs through the centre of
Between(a, b) ==
  {m \in {Pos(x, y) : x \in Min(a.x, b.x)..Max(a.x, b.x),
                      y \in Min(a.y, b.y)..Max(a.y, b.y)} \ {a, b} :
     (m.x - a.x) * (b.y - a.y) = (m.y - a.y) * (b.x - a.x)}

\* ROT.FOV.PreciseShadowcasting.compute: the tiles the callback is called
\* for, taken as the origin and the tiles within the radius (in rings of
\* the 8-topology) that no light-blocking cell on the segment shadows;
\* a cell that blocks light is itself seen
fovCompute(world, origin, radius) ==
  {p \in Cells(world.width, world.height) :
     /\ Max(Abs(p.x - origin.x), Abs(p.y - origin.y)) <= radius
     /\ \A m \in Between(origin, p) : lightPasses(world, m)}

\* calculateFOV: the returned set, and the world with the seen tiles marked
calculateFOV(world, x, y, radius) ==
  LET seen == fovCompute(world, Pos(x, y), radius)
  IN [visible |-> seen,
      world |-> [world EXCEPT !.tiles =
                   [p \in DOMAIN world.tiles |->
                      IF p \in seen
                        THEN [world.tiles[p] EXCEPT !.visible = TRUE, !.explored = TRUE]
                        ELSE world.tiles[p]]]]

\* updateVisibility that forgets what it clears
updateVisibility_ClearsExplored(world, x, y, radius) ==
  calculateFOV([world EXCEPT !.tiles =
                  [p \in DOMAIN world.tiles |->
                     [world.tiles[p] EXCEPT !.visible = FALSE, !.explored = FALSE]]],
               x, y, radius).world

updateVisibility(world, x, y, radius) ==
  calculateFOV([world EXCEPT !.tiles =
                  [p \in DOMAIN world.tiles |-> [world.tiles[p] EXCEPT !.visible = FALSE]]],
               x, y, radius).world

\* the 8-topology of ROT.Path
adjacent(a, b) == a # b /\ Abs(a.x - b.x) <= 1 /\ Abs(a.y - b.y) <= 1

\* ROT.Path.AStar searches from the target: the target is taken as it is, a
\* cell is entered from a neighbour only if the callback lets it pass.  The
\* cells reached, each with its number of steps to the target
RECURSIVE searchFrom(_, _, _, _)
searchFrom(passable, frontier, done, k) ==
  IF frontier = {}
    THEN {}
    ELSE {<<c, k>> : c \in frontier}
           \cup searchFrom(passable,
                           {n \in passable \ (done \cup frontier) :
                              \E c \in frontier : adjacent(n, c)},
                           done \cup frontier, k + 1)

stepsOf(found, c) == CHOOSE k \in 0..Cardinality(found) : <<c, k>> \in found

RECURSIVE walk(_, _, _)
walk(found, c, to) ==
  IF c = to
    THEN {<<c>>}
    ELSE UNION {{<<c>> \o rest : rest \in walk(found, n, to)} :
                  n \in {m \in {f[1] : f \in found} :
                           adjacent(m, c) /\ stepsOf(found, m) = stepsOf(found, c) - 1}}

\* AStar.compute(from): the cells the callback is called with, in order from
\* `from` to the target, for each way the search may break ties among the
\* shortest paths; no call at all when `from` is not reached
astar(passable, from, to) ==
  LET found == searchFrom(passable, {to}, {}, 0)
  IN IF \E f \in found : f[1] = from THEN walk(found, from, to) ELSE {<<>>}

\* findPath: what it may return
findPath(world, start, goal) ==
  LET passable == {p \in Cells(world.width, world.height) : passableCallback(world, p)}
  IN {IF path = <<>> THEN <<>> ELSE Tail(path) : path \in astar(passable, start, goal)}

\* hasLineOfSight: what it may return
hasLineOfSight(world, start, end) ==
  LET light == {p \in Cells(world.width, world.height) : lightPasses(world, p)}
  IN {\A i \in 1..Len(path) : lightPasses(world, path[i]) :
        path \in astar(light, start, end)}

\* getRandomPassablePosition: the position and the generator's state after it
RECURSIVE getRandomPassablePosition(_, _, _)
getRandomPassablePosition(world, s, attempts) ==
  IF attempts >= 100
    THEN [position |-> Pos(world.width \div 2, world.height \div 2), rng |-> s]
    ELSE LET x == getUniformInt(s, 0, world.width - 1)
             y == getUniformInt(x.rng, 0, world.height - 1)
         IN IF world.tiles[Pos(x.value, y.value)].type \notin {"wall", "water"}
              THEN [position |-> Pos(x.value, y.value), rng |-> y.rng]
              ELSE getRandomPassablePosition(world, y.rng, attempts + 1)

\* --------------------------------------------------- worldStateManager.ts
MaxNow == 2

\* explore calls are followed up to this many steps
MaxSteps == 2

\* GAME_BALANCE.world, the chance in thousandths
encounterBaseChance == 100
encounterNightMultiplier == 2

NullWorld == [width |-> 0, height |-> 0, seed |-> <<>>, tiles |-> <<>>]

\* WorldStateManager.constructor
NewWorldState ==
  [world |-> NullWorld, playerPosition |-> Pos(0, 0), visibleTiles |-> {},
   currentLevel |-> 0, levelType |-> "dungeon"]

NoGeneration ==
  [style |-> "none", width |-> 0, height |-> 0, seed |-> <<>>, tiles |-> <<>>,
   rngBefore |-> 0, at |-> 0, elsewhere |-> FALSE]

NoQuery ==
  [op |-> "none", world |-> NullWorld, start |-> Pos(0, 0), goal |-> Pos(0, 0),
   path |-> <<>>, clear |-> TRUE]

\* the seed strings callers pass: none, numbers, a name, zero
Seeds == {<<>>, <<"7">>, <<"4", "2">>, <<"x">>, <<"0">>}

WorldSizes == {<<3, 3>>}

\* WorldStateManager.updateFOV
updateFOV(ws, radius) ==
  IF ws.world = NullWorld
    THEN ws
    ELSE LET fov == calculateFOV(ws.world, ws.playerPosition.x, ws.playerPosition.y, radius)
         IN [ws EXCEPT !.world = fov.world, !.visibleTiles = fov.visible]

\* WorldStateManager.initializeWorld
InitializeWorld(width, height, seed, type) ==
  LET gen == IF type = "outdoor"
               THEN generateCellularWorld(width, height, seed, rng, now)
               ELSE generateProceduralWorld(width, height, seed, rng, now)
      start == getRandomPassablePosition(gen.world, gen.rng, 0)
  IN /\ worldState' = updateFOV([world |-> gen.world, playerPosition |-> start.position,
                                 visibleTiles |-> {}, currentLevel |-> 1,
                                 levelType |-> type],
                                visionRadius)
     /\ rng' = start.rng
     /\ UNCHANGED <<visionRadius, now, generated, earlier, query>>
     /\ UNCHANGED <<combatVars, sessionVars, libraryVars, serviceVars>>

\* WorldStateManager.movePlayer
MovePlayer(newPosition) ==
  /\ worldState' =
       IF \/ worldState.world = NullWorld
          \/ ~inBounds(worldState.world, newPosition)
          \/ worldState.world.tiles[newPosition].type \in {"wall", "water"}
         THEN worldState
         ELSE updateFOV([worldState EXCEPT !.playerPosition = newPosition], visionRadius)
  /\ UNCHANGED <<visionRadius, rng, now, generated, earlier, query>>
  /\ UNCHANGED <<combatVars, sessionVars, libraryVars, serviceVars>>

\* WorldStateManager.setVisionRadius
SetVisionRadius(radius) ==
  /\ visionRadius' = Max(1, Min(radius, 20))
  /\ worldState' = updateFOV(worldState, visionRadius')
  /\ UNCHANGED <<rng, now, generated, earlier, query>>
  /\ UNCHANGED <<combatVars, sessionVars, libraryVars, serviceVars>>

\* a caller runs updateVisibility on the manager's world, from the player's
\* position or from another one
UpdateVisibility(p, radius) ==
  /\ worldState.world # NullWorld
  /\ worldState' = [worldState EXCEPT
                      !.world = updateVisibility(worldState.world, p.x, p.y, radius)]
  /\ UNCHANGED <<visionRadius, rng, now, generated, earlier, query>>
  /\ UNCHANGED <<combatVars, sessionVars, libraryVars, serviceVars>>

\* ExplorationSystem's fields after construction; no call of explore yet
NoExploreCall == [action |-> "none", moved |-> FALSE, encounterRolled |-> FALSE,
                  narrative |-> "none", gameStateUpdates |-> {}]

NewExplorationSystem ==
  [currentLevel |-> [depth |-> 1, type |-> "dungeon", difficulty |-> 1, bossPresent |-> FALSE],
   stepsExplored |-> 0, last |-> NoExploreCall]

\* ExplorationSystem.initializeDungeon; the 40 x 30 world is scaled down to
\* WorldSizes and the seed string is one of Seeds
InitializeDungeon(size, seed, type, depth) ==
  LET gen == IF type = "outdoor"
               THEN generateCellularWorld(size[1], size[2], seed, rng, now)
               ELSE generateProceduralWorld(size[1], size[2], seed, rng, now)
      start == getRandomPassablePosition(gen.world, gen.rng, 0)
  IN /\ worldState' = updateFOV([world |-> gen.world, playerPosition |-> start.position,
                                 visibleTiles |-> {}, currentLevel |-> 1,
                                 levelType |-> type],
                                visionRadius)
     /\ rng' = start.rng
     /\ exploration' = [currentLevel |-> [depth |-> depth, type |-> type, difficulty |-> depth,
                                          bossPresent |-> depth % 5 = 0],
                        stepsExplored |-> 0, last |-> NoExploreCall]
     /\ UNCHANGED <<visionRadius, now, generated, earlier, query>>
     /\ UNCHANGED <<combatVars, sessionVars, libraryVars, protocolVars, held>>

\* WorldStateManager.movePlayerDirection
movePlayerDirection(ws, direction) ==
  Pos(CASE direction = "east" -> ws.playerPosition.x + 1
        [] direction = "west" -> ws.playerPosition.x - 1
        [] OTHER -> ws.playerPosition.x,
      CASE direction = "south" -> ws.playerPosition.y + 1
        [] direction = "north" -> ws.playerPosition.y - 1
        [] OTHER -> ws.playerPosition.y)

\* movePlayer without the check of the tile's type
canMove_ThroughWalls(ws, newPosition) ==
  /\ ws.world # NullWorld
  /\ inBounds(ws.world, newPosition)

\* WorldStateManager.movePlayer: whether the move is made
canMove(ws, newPosition) ==
  /\ ws.world # NullWorld
  /\ inBounds(ws.world, newPosition)
  /\ ws.world.tiles[newPosition].type \notin {"wall", "water"}

\* ExplorationSystem.calculateEncounterChance, in thousandths
calculateEncounterChance(time, tileType, difficulty) ==
  LET tile == IF tileType \in {"ruins", "building"} THEN 2 ELSE 1
      night == IF time \in {"Night", "Evening"} THEN encounterNightMultiplier ELSE 1
  IN Min((encounterBaseChance * tile * night * (10 + difficulty)) \div 10, 800)

\* ExplorationSystem.explore for a GameState with the given time and supplies;
\* k / RandDen is the first Math.random() the call draws.  Of the result the
\* narrative's kind and the names of the fields in gameStateUpdates are kept.
Explore(time, supplies, action, k) ==
  LET position == movePlayerDirection(worldState, action)
      moved == canMove(worldState, position)
      ws == IF moved
              THEN updateFOV([worldState EXCEPT !.playerPosition = position], visionRadius)
              ELSE worldState
      tile == ws.world.tiles[ws.playerPosition]
      here == worldState.world.tiles[worldState.playerPosition]
      Call(isMoved, rolled, narrative, updates) ==
        [action |-> action, moved |-> isMoved, encounterRolled |-> rolled,
         narrative |-> narrative, gameStateUpdates |-> updates]
  IN /\ exploration.stepsExplored < MaxSteps
     /\ CASE action = "rest" ->
               /\ exploration' = [exploration EXCEPT !.last =
                     IF supplies < 1
                       THEN Call(FALSE, FALSE, "no supplies", {})
                       ELSE Call(FALSE, FALSE, "rest", {"hp", "supplies"})]
               /\ UNCHANGED worldState
          [] action = "search" ->
               /\ exploration' = [exploration EXCEPT !.last =
                     IF worldState.world = NullWorld
                          \/ ~inBounds(worldState.world, worldState.playerPosition)
                       THEN Call(FALSE, FALSE, "nothing of interest", {})
                     ELSE IF here.resources # NoResources /\ Len(here.resources) > 0
                       THEN Call(FALSE, FALSE, "discovery", {"inventory"})
                     ELSE IF k * 100 < 35 * RandDen
                       THEN Call(FALSE, FALSE, "found", {})
                       ELSE Call(FALSE, FALSE, "nothing useful", {})]
               /\ UNCHANGED worldState
          [] OTHER ->
               /\ worldState' = ws
               /\ exploration' =
                    IF ~moved
                      THEN [exploration EXCEPT !.last = Call(FALSE, FALSE, "cannot move", {})]
                    ELSE [exploration EXCEPT
                            !.stepsExplored = @ + 1,
                            !.last =
                              IF k * 1000 < RandDen * calculateEncounterChance(
                                                time, tile.type, exploration.currentLevel.difficulty)
                                THEN Call(TRUE, TRUE, "encounter",
                                          {"phase", "enemies", "actionPoints", "maxActionPoints"})
                              ELSE IF tile.resources # NoResources /\ Len(tile.resources) > 0
                                THEN Call(TRUE, TRUE, "discovery", {"inventory"})
                                ELSE Call(TRUE, TRUE, "explored", {})]
     /\ UNCHANGED <<visionRadius, rng, now, generated, earlier, query>>
     /\ UNCHANGED <<combatVars, sessionVars, libraryVars, protocolVars, held>>

\* time passes
Tick ==
  /\ now < MaxNow
  /\ now' = now + 1
  /\ UNCHANGED <<worldState, visionRadius, rng, generated, earlier, query>>
  /\ UNCHANGED <<combatVars, sessionVars, libraryVars, serviceVars>>

\* a direct call of a generator, as a host or a client makes it
GenerateWorld(width, height, seed, style) ==
  LET gen == IF style = "cellular"
               THEN generateCellularWorld(width, height, seed, rng, now)
               ELSE generateProceduralWorld(width, height, seed, rng, now)
  IN /\ generated' = [style |-> style, width |-> width, height |-> height,
                      seed |-> seed, tiles |-> gen.world.tiles,
                      rngBefore |-> rng, at |-> now,
                      elsewhere |-> rng # generated.rngBefore /\ now # generated.at]
     /\ earlier' = [generated EXCEPT !.rngBefore = 0, !.at = 0, !.elsewhere = FALSE]
     /\ rng' = gen.rng
     /\ UNCHANGED <<worldState, visionRadius, now, query>>
     /\ UNCHANGED <<combatVars, sessionVars, libraryVars, serviceVars>>

\* some other code draws from the shared generator
DrawRandom ==
  /\ rng' = getUniformInt(rng, 0, 1).rng
  /\ UNCHANGED <<worldState, visionRadius, now, generated, earlier, query>>
  /\ UNCHANGED <<combatVars, sessionVars, libraryVars, serviceVars>>

\* the worlds path queries are made on: every 3 x 2 grid of floor, wall and
\* water tiles
TestWorlds ==
  {[width |-> 3, height |-> 2, seed |-> <<>>, tiles |-> tiles] :
     tiles \in [Cells(3, 2) -> {NewTile("floor"), NewTile("wall"), NewTile("water")}]}

FindPath(start, goal) ==
  /\ \E path \in findPath(query.world, start, goal) :
       query' = [query EXCEPT !.op = "findPath", !.start = start, !.goal = goal,
                              !.path = path, !.clear = TRUE]
  /\ UNCHANGED <<worldState, visionRadius, rng, now, generated, earlier>>
  /\ UNCHANGED <<combatVars, sessionVars, libraryVars, serviceVars>>

HasLineOfSight(start, end) ==
  /\ \E clear \in hasLineOfSight(query.world, start, end) :
       query' = [query EXCEPT !.op = "hasLineOfSight", !.start = start, !.goal = end,
                              !.path = <<>>, !.clear = clear]
  /\ UNCHANGED <<worldState, visionRadius, rng, now, generated, earlier>>
  /\ UNCHANGED <<combatVars, sessionVars, libraryVars, serviceVars>>

\* ------------------------------------ peerGameProtocol (combatEngine.ts)
\* A JavaScript value: its kind and, for a string or a number, its text.
JS(t, v) == [t |-> t, v |-> v]
Undefined == JS("undefined", "")
Null == JS("null", "")
Str(text) == JS("string", text)
Num(text) == JS("number", text)
Bool(text) == JS("boolean", text)
Obj == JS("object", "{}")
Arr == JS("array", "[]")

\* typeof x
typeOf(x) == IF x.t \in {"array", "null"} THEN "object" ELSE x.t

\* !!x
truthy(x) ==
  ~ \/ x.t \in {"undefined", "null"}
    \/ x.t = "string" /\ x.v = ""
    \/ x.t = "number" /\ x.v = "0"
    \/ x.t = "boolean" /\ x.v = "false"

\* Array.isArray(x)
isArray(x) == x.t = "array"

\* the fields of the GameMessage union, by message kind
GameMessageFields ==
  [ HANDSHAKE           |-> {"character", "clientVersion"},
    HANDSHAKE_ACK       |-> {"hostVersion", "worldSeed", "currentGameState"},
    STATE_SYNC          |-> {"gameState", "messages", "timestamp"},
    STATE_REQUEST       |-> {"reason"},
    GAME_ACTION         |-> {"actionId", "action", "payload", "timestamp"},
    ACTION_RESULT       |-> {"actionId", "success", "results", "newGameState"},
    ACTION_REJECTED     |-> {"actionId", "reason", "currentGameState"},
    COMBAT_START        |-> {"enemyTypes", "isNight"},
    COMBAT_UPDATE       |-> {"gameState", "combatLog"},
    COMBAT_END          |-> {"outcome"},
    PLAYER_MESSAGE      |-> {"playerId", "message"},
    PLAYER_DISCONNECTED |-> {"playerId"},
    PING                |-> {"timestamp"},
    PONG                |-> {"timestamp"},
    ERROR               |-> {"code", "message"} ]

GameMessageTypes == DOMAIN GameMessageFields

FieldNames == UNION {GameMessageFields[k] : k \in GameMessageTypes}

\* a value of the type the union declares for a field
Declared(field) ==
  CASE field \in {"timestamp"} -> Num("17")
    [] field \in {"success", "isNight"} -> Bool("true")
    [] field \in {"messages", "results", "enemyTypes", "combatLog"} -> Arr
    [] field \in {"character", "currentGameState", "gameState", "payload",
                  "newGameState"} -> Obj
    [] OTHER -> Str(field)

\* a message as validate receives it: any value; when it is an object, the
\* value of its type property and of every other property (Undefined: absent)
Message(value, type, fields) == [value |-> value, type |-> type, fields |-> fields]

NoFields == [f \in FieldNames |-> Undefined]

\* MessageValidator.validate
validate(message) ==
  IF ~truthy(message.value) \/ typeOf(message.value) # "object" THEN FALSE
  ELSE IF ~truthy(message.type) \/ typeOf(message.type) # "string" THEN FALSE
  ELSE CASE message.type.v = "HANDSHAKE" ->
              /\ truthy(message.fields["character"])
              /\ typeOf(message.fields["clientVersion"]) = "string"
         [] message.type.v = "STATE_SYNC" ->
              /\ truthy(message.fields["gameState"])
              /\ isArray(message.fields["messages"])
         [] message.type.v = "GAME_ACTION" ->
              /\ typeOf(message.fields["actionId"]) = "string"
              /\ typeOf(message.fields["action"]) = "string"
              /\ truthy(message.fields["payload"])
         [] message.type.v = "COMBAT_UPDATE" ->
              /\ truthy(message.fields["gameState"])
              /\ isArray(message.fields["combatLog"])
         [] OTHER -> TRUE

\* the values passed to validate: values that are no objects, and objects
\* whose type is absent, no string, empty, a kind of the union or no kind of
\* it, with any part of that kind's fields present and any one of them of
\* another type
TypeValues ==
  {Undefined, Num("1"), Str("")} \cup {Str(k) : k \in GameMessageTypes}
    \cup {Str("CHAT"), Str("handshake")}

FieldChoices(type) ==
  IF type.t = "string" /\ type.v \in GameMessageTypes
    THEN LET required == GameMessageFields[type.v]
             all == [f \in FieldNames |-> IF f \in required THEN Declared(f) ELSE Undefined]
         IN {[f \in FieldNames |-> IF f \in present THEN Declared(f) ELSE Undefined]
               : present \in SUBSET required}
              \cup {[all EXCEPT ![f] = other] : f \in required, other \in {Num("0"), Null}}
    ELSE {NoFields, [NoFields EXCEPT !["message"] = Str("hello")]}

Messages ==
  {Message(v, Undefined, NoFields) : v \in {Undefined, Null, Str("PING"), Num("7")}}
    \cup UNION {{Message(Obj, type, fields) : fields \in FieldChoices(type)}
                 : type \in TypeValues}
    \cup {Message(Arr, Undefined, NoFields)}

\* some caller passes a received packet to MessageValidator.validate
Validate(message) ==
  /\ invoked' = [name |-> "validate", args |-> <<message>>]
  /\ returned' = validate(message)
  /\ UNCHANGED <<combatVars, sessionVars, worldVars, serviceVars>>

\* ------------------------------------------------------------- zombieAI.ts
\* ZombieAI.calculateDistance: the range tier as a distance
calculateDistance(zombie) ==
  CASE zombie.range = "Melee" -> 1
    [] zombie.range = "Near" -> 3
    [] zombie.range = "Far" -> 8
    [] OTHER -> 5

\* ZombieAI.createAttackAction: the damage of the attack action, roll k
createAttackAction(zombie, k) ==
  (zombieTypes[zombie.name].attack * (8 * RandDen + 4 * k)) \div (10 * RandDen)

\* an enemy of a zombie type as initiateCombat makes it, at a range tier
ZombieAt(type, range) ==
  [initiateCombat(BaseGameState(100, "Rusty Pipe", Skills(1, 1, 1)), <<type>>).enemies[1]
     EXCEPT !.range = range]

\* ZombieAI.decideAction for a zombie that is not stunned and stands at
\* distance <= 1: the attack action
DecideAttack(type, range, k) ==
  LET zombie == ZombieAt(type, range)
  IN /\ calculateDistance(zombie) <= 1
     /\ invoked' = [name |-> "createAttackAction", args |-> <<zombie, k>>]
     /\ returned' = createAttackAction(zombie, k)
     /\ UNCHANGED <<combatVars, sessionVars, worldVars, serviceVars>>

\* some caller asks gameBalance.calculateDamage for a damage; Math.random()
\* is any k / RandDen in [0, 1)
CalculateDamage(base, targetDefense10, isCritical, k) ==
  /\ invoked' = [name |-> "calculateDamage", args |-> <<base, targetDefense10, isCritical, k>>]
  /\ returned' = calculateDamage(base, targetDefense10, isCritical, k)
  /\ UNCHANGED <<combatVars, sessionVars, worldVars, serviceVars>>

\* ------------------------------------------------------------ specifications
\* the engine's states and the results after a call that returned r
Engine(r) ==
  /\ gameState' = r.g
  /\ combatState' = r.c
  /\ results' = r.results
  /\ accepted' = r.accepted
  /\ apAfterDeduct' = r.apAfterDeduct

ProcessAction ==
  /\ combatState.round <= MaxRound
  /\ \E action \in Actions :
       \E r \in processAction(gameState, combatState, action) : Engine(r)
  /\ UNCHANGED <<sessionVars, worldVars, libraryVars, serviceVars>>

\* new CombatEngine(gameState) and a first getGameState(), as their caller
\* holds them: the constructor and the getter copy the GameState with
\* { ...gameState }, so the copies share the enemies array and its objects,
\* the inventory array and the skills object with the engine's GameState
Held(g) == [passed |-> g, linked |-> TRUE, snapshot |-> g]

\* processAction, with what the caller's objects read afterwards: the
\* GameState passed to the constructor, and the GameState the previous call
\* returned, which is the engine's own object if that call was rejected
ProcessActionHeld ==
  /\ combatState.round <= MaxRound
  /\ \E action \in Actions :
       \E r \in processAction(gameState, combatState, action) :
         /\ Engine(r)
         /\ held' =
              [passed |-> [held.passed EXCEPT
                             !.enemies = IF held.linked THEN r.mutated.enemies ELSE @,
                             !.inventory = r.mutated.inventory,
                             !.skills = r.mutated.skills],
               linked |-> held.linked /\ ~r.reassigned,
               snapshot |-> IF ~accepted /\ results # <<>>
                              THEN r.g
                              ELSE [gameState EXCEPT !.enemies = r.mutated.enemies,
                                                     !.inventory = r.mutated.inventory,
                                                     !.skills = r.mutated.skills]]
  /\ UNCHANGED <<sessionVars, worldVars, libraryVars, explorationVars, protocolVars>>

vars == <<combatVars, sessionVars, worldVars, libraryVars, serviceVars>>

\* no session: the engine is used on its own
NoSession ==
  /\ conn = "closed"
  /\ toHost = <<>>
  /\ toClient = <<>>
  /\ hostGameState = 0
  /\ hostMessages = <<>>
  /\ hostIsProcessing = FALSE
  /\ pendingCalls = {}
  /\ calls = 0
  /\ clientGameState = 0
  /\ clientMessages = <<>>
  /\ clientIsProcessing = FALSE
  /\ inputs = 0
  /\ requests = 0
  /\ lastHostRecv = [type |-> "none", syncs |-> 0]

\* no world: the world code is not in use
NoWorld ==
  /\ worldState = NewWorldState
  /\ visionRadius = 8
  /\ rng = 0
  /\ now = 1
  /\ generated = NoGeneration
  /\ earlier = NoGeneration
  /\ query = NoQuery

\* ConnectionMonitor's fields after construction
NewConnectionMonitor ==
  [lastPingTime |-> 0, lastPongTime |-> 0, unanswered |-> {}, answered |-> {}]

\* ConnectionMonitor.recordPing
RecordPing ==
  /\ monitor' = [monitor EXCEPT !.lastPingTime = now, !.unanswered = @ \cup {now}]
  /\ UNCHANGED <<actionQueue, explorationVars, held>>
  /\ UNCHANGED <<combatVars, sessionVars, worldVars, libraryVars>>

\* ConnectionMonitor.recordPong, for the pong that answers the ping sent at time ping
RecordPong(ping) ==
  /\ ping \in monitor.unanswered
  /\ monitor' = [monitor EXCEPT !.lastPongTime = now, !.unanswered = @ \ {ping},
                                !.answered = {ping}]
  /\ UNCHANGED <<actionQueue, explorationVars, held>>
  /\ UNCHANGED <<combatVars, sessionVars, worldVars, libraryVars>>

\* ConnectionMonitor.getLatency
getLatency(m) == m.lastPongTime - m.lastPingTime

\* ActionQueue's fields after construction; queue maps the identifiers it
\* holds to their entries
NoActionId == "null"
NewActionQueue == [queue |-> <<>>, pendingActionId |-> NoActionId]

\* what getPending returns for null
NoPending == [actionId |-> NoActionId, action |-> "none"]

ActionIds == {"a1", "a2"}

\* ActionQueue.enqueue
Enqueue(actionId, action) ==
  /\ actionQueue' =
       [queue |-> [id \in DOMAIN actionQueue.queue \cup {actionId} |->
                     IF id = actionId THEN [action |-> action, timestamp |-> now]
                                      ELSE actionQueue.queue[id]],
        pendingActionId |-> IF actionQueue.pendingActionId = NoActionId
                              THEN actionId ELSE actionQueue.pendingActionId]
  /\ UNCHANGED <<monitor, explorationVars, held>>
  /\ UNCHANGED <<combatVars, sessionVars, worldVars, libraryVars>>

\* ActionQueue.dequeue
Dequeue(actionId) ==
  /\ actionQueue' =
       [queue |-> [id \in DOMAIN actionQueue.queue \ {actionId} |-> actionQueue.queue[id]],
        pendingActionId |-> IF actionQueue.pendingActionId = actionId
                              THEN NoActionId ELSE actionQueue.pendingActionId]
  /\ UNCHANGED <<monitor, explorationVars, held>>
  /\ UNCHANGED <<combatVars, sessionVars, worldVars, libraryVars>>

\* ActionQueue.clear
ClearQueue ==
  /\ actionQueue' = NewActionQueue
  /\ UNCHANGED <<monitor, explorationVars, held>>
  /\ UNCHANGED <<combatVars, sessionVars, worldVars, libraryVars>>

\* ActionQueue.getPending
getPending(q) ==
  IF q.pendingActionId = NoActionId THEN NoPending
  ELSE IF q.pendingActionId \notin DOMAIN q.queue THEN NoPending
  ELSE [actionId |-> q.pendingActionId, action |-> q.queue[q.pendingActionId].action]

\* a new ExplorationSystem, ConnectionMonitor and ActionQueue
NewServices ==
  /\ exploration = NewExplorationSystem
  /\ monitor = NewConnectionMonitor
  /\ actionQueue = NewActionQueue

\* and no caller whose objects are followed
NoServices == NewServices /\ held = Held(BaseGameState(100, "Rusty Pipe", Skills(1, 1, 1)))

\* no direct call of a library function has been made
NoCall ==
  /\ invoked = [name |-> "none", args |-> <<>>]
  /\ returned = "nothing"

Init == InitCombat /\ NoSession /\ NoWorld /\ NoCall /\ NoServices

Next == ProcessAction

\* the caller's GameStates are followed through the combat
HeldInit == InitCombat /\ NoSession /\ NoWorld /\ NoCall /\ NewServices /\ held = Held(gameState)

SpecHeld == HeldInit /\ [][ProcessActionHeld]_vars

\* combat started by initiateCombat
Spec == Init /\ [][Next]_vars

\* an engine constructed from any GameState, initiateCombat's included
InitAny == (InitCombat \/ InitMidGame) /\ NoSession /\ NoWorld /\ NoCall /\ NoServices

SpecAny == InitAny /\ [][Next]_vars

\* no combat: the GameScreen leaves combat to the narrative engine
NoCombat ==
  /\ gameState = BaseGameState(100, "Rusty Pipe", Skills(1, 1, 1))
  /\ combatState = NewCombatState(gameState)
  /\ results = <<>>
  /\ accepted = FALSE
  /\ apAfterDeduct = combatState.playerActionPoints

SessionInit == InitSession /\ NoCombat /\ NoWorld /\ NoCall /\ NoServices

SessionNext ==
  \/ HostSend
  \/ HostOnData
  \/ CallSettles
  \/ ClientSend
  \/ ClientRequestsState
  \/ ClientOnData
  \/ ClientJoins
  \/ ConnectionCloses

\* a host and a client GameScreen over one data connection
SpecSession == SessionInit /\ [][SessionNext]_vars

\* a fresh WorldStateManager; ROT.RNG starts from a seed taken from the clock
WorldInit ==
  /\ worldState = NewWorldState
  /\ visionRadius = 8
  /\ rng \in 0..(RngPeriod - 1)
  /\ now = 1
  /\ generated = NoGeneration
  /\ earlier = NoGeneration
  /\ query = NoQuery
  /\ NoCombat
  /\ NoSession
  /\ NoCall /\ NoServices

WorldNext ==
  \/ \E size \in WorldSizes, seed \in Seeds, type \in {"dungeon", "outdoor"} :
       InitializeWorld(size[1], size[2], seed, type)
  \/ \E p \in Cells(3, 3) \cup {Pos(-1, 0)} : MovePlayer(p)
  \/ \E radius \in {0, 2} : SetVisionRadius(radius)
  \/ \E p \in {worldState.playerPosition, Pos(0, 0)}, radius \in {1, 8} :
       UpdateVisibility(p, radius)
  \/ Tick

\* a WorldStateManager and its world
SpecWorld == WorldInit /\ [][WorldNext]_vars

GenNext ==
  \/ \E size \in WorldSizes, seed \in Seeds, style \in {"digger", "cellular"} :
       GenerateWorld(size[1], size[2], seed, style)
  \/ DrawRandom
  \/ Tick

\* the world generators called directly, by any caller at any time
SpecGen == WorldInit /\ [][GenNext]_vars

PathInit ==
  /\ \E w \in TestWorlds : query = [NoQuery EXCEPT !.world = w]
  /\ worldState = NewWorldState
  /\ visionRadius = 8
  /\ rng = 0
  /\ now = 1
  /\ generated = NoGeneration
  /\ earlier = NoGeneration
  /\ NoCombat
  /\ NoSession
  /\ NoCall /\ NoServices

PathNext ==
  \/ \E start, goal \in Cells(3, 2) : FindPath(start, goal)
  \/ \E start, end \in Cells(3, 2) : HasLineOfSight(start, end)

\* findPath and hasLineOfSight on any small world
SpecPath == PathInit /\ [][PathNext]_vars

ExploreNext ==
  \/ \E size \in WorldSizes, seed \in Seeds, type \in {"dungeon", "outdoor", "building"},
        depth \in {1, 5} :
       InitializeDungeon(size, seed, type, depth)
  \/ \E time \in {"Morning", "Night"}, supplies \in {0, 3},
        action \in {"north", "south", "east", "west", "search", "rest"}, k \in Rolls :
       Explore(time, supplies, action, k)

\* an ExplorationSystem and the world manager it drives
SpecExplore == WorldInit /\ [][ExploreNext]_vars

ProtocolInit == NoCombat /\ NoSession /\ NoWorld /\ NoCall /\ NoServices

ProtocolNext ==
  \/ RecordPing
  \/ \E ping \in 1..MaxNow : RecordPong(ping)
  \/ \E actionId \in ActionIds, action \in {"attack", "defend"} : Enqueue(actionId, action)
  \/ \E actionId \in ActionIds : Dequeue(actionId)
  \/ ClearQueue
  \/ Tick

\* a peer's ConnectionMonitor and ActionQueue, called in any order as time passes
SpecProtocol == ProtocolInit /\ [][ProtocolNext]_vars

LibraryInit == NoCombat /\ NoSession /\ NoWorld /\ NoCall /\ NoServices

LibraryNext ==
  \/ \E message \in Messages : Validate(message)
  \/ \E targetDefense10 \in {0, 20, 80}, isCritical \in BOOLEAN, k \in 0..(RandDen - 1) :
       CalculateDamage(baseDamage, targetDefense10, isCritical, k)
  \/ \E type \in DOMAIN zombieTypes, range \in {"Melee", "Near"}, k \in 0..(RandDen - 1) :
       DecideAttack(type, range, k)

\* the stateless functions of the library, called with any arguments
SpecLibrary == LibraryInit /\ [][LibraryNext]_vars

\* ------------------------------------------------------------------ claims
TerminalPhases == {"victory", "defeat", "fled"}

HasResult(type) == \E i \in 1..Len(results) : results[i].type = type

\* C1: from an initiateCombat state, after any sequence of processAction
\* calls, 0 <= playerActionPoints <= maxActionPoints.
C1_ActionPointsInRange ==
  /\ combatState.playerActionPoints >= 0
  /\ combatState.playerActionPoints <= gameState.maxActionPoints

C1_Witness ==
  /\ accepted
  /\ apAfterDeduct = 0
  /\ combatState.playerActionPoints = gameState.maxActionPoints
  /\ combatState.round = 2

\* the cases in which C2 says an action is rejected
C2_MustReject(action) ==
  \/ combatState.phase # "player_turn"
  \/ combatState.playerActionPoints < 1
  \/ /\ action.type = "attack"
     /\ \A i \in 1..Len(gameState.enemies) :
          gameState.enemies[i].id = action.targetId => gameState.enemies[i].hp <= 0
  \/ /\ action.type = "use_item"
     /\ \A i \in 1..Len(gameState.inventory) : gameState.inventory[i] # action.itemId

\* C2: when the phase is not player_turn, AP < 1, an attack names a missing or
\* dead enemy, or use_item names an item not held, processAction returns the
\* single failed 'Invalid action' result and both states unchanged.
C2_RejectLeavesStateUnchanged ==
  \A action \in Actions :
    C2_MustReject(action) =>
      \A r \in processAction(gameState, combatState, action) :
        /\ r.results = <<InvalidResult>>
        /\ ~r.accepted
        /\ r.g = gameState
        /\ r.c = combatState

\* a rejected attack on a dead enemy while another one is alive, after play
C2_Witness ==
  /\ combatState.phase = "player_turn"
  /\ combatState.playerActionPoints >= 1
  /\ combatState.log > 0
  /\ ~accepted
  /\ results = <<InvalidResult>>
  /\ \E i \in 1..Len(gameState.enemies) : gameState.enemies[i].hp <= 0

\* C3 (as claimed): after a successful flee the combat phase is fled, the
\* GameState phase is exploration, the enemy list is empty and the AP is
\* what it was before the action.
C3_FleeEndsInFled ==
  (accepted /\ HasResult("flee_success")) =>
    /\ combatState.phase = "fled"
    /\ gameState.phase = "exploration"
    /\ gameState.enemies = <<>>
    /\ combatState.playerActionPoints = apAfterDeduct

\* C4: an accepted action that leaves every enemy at hp <= 0 and the player
\* alive ends in victory with GameState phase exploration and no enemies;
\* every victory state has an empty enemy list.
C4_VictoryClearsEnemies ==
  /\ (accepted /\ gameState.hp > 0 /\ AliveEnemies(gameState.enemies) = {}) =>
       /\ combatState.phase = "victory"
       /\ gameState.phase = "exploration"
       /\ gameState.enemies = <<>>
  /\ combatState.phase = "victory" => gameState.enemies = <<>>

\* a victory won by a killing blow
C4_Witness ==
  /\ accepted
  /\ combatState.phase = "victory"
  /\ results[1].type \in {"damage", "execution"}
  /\ gameState.hp > 0

\* C5: whenever processAction returns in player_turn the player and at least
\* one enemy are alive; an accepted action that leaves the player at
\* hp <= 0 ends in defeat.
C5_PlayerTurnMeansBothAlive ==
  /\ combatState.phase = "player_turn" =>
       /\ gameState.hp > 0
       /\ AliveEnemies(gameState.enemies) # {}
  /\ (accepted /\ gameState.hp <= 0) => combatState.phase = "defeat"

C5_Witness ==
  /\ accepted
  /\ gameState.hp = 0
  /\ combatState.phase = "defeat"
  /\ HasResult("enemy_attack")

\* C6: once the phase is victory, defeat or fled every later processAction is
\* rejected and neither the GameState nor the CombatState changes again.
C6_TerminalPhasesAreFinal ==
  [][combatState.phase \in TerminalPhases =>
       /\ ~accepted'
       /\ results' = <<InvalidResult>>
       /\ gameState' = gameState
       /\ combatState' = combatState]_vars

\* an action was rejected in a terminal phase
C6_Witness ==
  /\ combatState.phase \in TerminalPhases
  /\ ~accepted
  /\ results = <<InvalidResult>>

\* C7: an accepted action that brings the AP to 0 resolves the enemy turn in
\* the same call (round + 1, AP = maxActionPoints, defending flag false, phase
\* player_turn unless the combat ended); the round changes at no other time.
C7_TurnCycle ==
  [][/\ (accepted' /\ apAfterDeduct' = 0) =>
          /\ combatState'.round = combatState.round + 1
          /\ combatState'.playerActionPoints = gameState'.maxActionPoints
          /\ ~combatState'.defendActive
          /\ combatState'.phase \in {"player_turn"} \cup TerminalPhases
     /\ combatState'.round # combatState.round => (accepted' /\ apAfterDeduct' = 0)]_vars

\* the turn ended after a defend and the next player turn began
C7_Witness ==
  /\ accepted
  /\ apAfterDeduct = 0
  /\ HasResult("defend")
  /\ combatState.round = 2
  /\ combatState.phase = "player_turn"

\* C8: every accepted action but a successful flee costs exactly 1 AP before
\* any end-of-turn reset (after the refund of a firearm kill, if any); a
\* successful flee leaves the AP unchanged.
C8_EveryActionCostsOneAP ==
  [][accepted' =>
       IF HasResult("flee_success")'
         THEN /\ apAfterDeduct' = combatState.playerActionPoints
              /\ combatState'.playerActionPoints = combatState.playerActionPoints
         ELSE apAfterDeduct' =
                (IF HasResult("ap_refund")'
                   THEN Min(combatState.playerActionPoints + 1, maxActionPoints)
                   ELSE combatState.playerActionPoints) - 1]_vars

\* a jammed attack was charged
C8_Witness ==
  /\ accepted
  /\ results[1].type = "jam"
  /\ apAfterDeduct = baseActionPoints - 1

ActionsInProgress == {call \in pendingCalls : call.kind = "action"}

\* C9 (as claimed): the host never has two game actions in progress at once:
\* an action arriving while an earlier one is being resolved is queued or
\* rejected, never processed alongside it.
C9_OneActionAtATime == Cardinality(ActionsInProgress) <= 1

\* C10 (as claimed): every STATE_REQUEST that reaches the host is answered by
\* exactly one STATE_SYNC.
C10_StateRequestAnswered ==
  lastHostRecv.type = "STATE_REQUEST" => lastHostRecv.syncs = 1

\* the client's listener takes a STATE_SYNC off the connection in this step
ClientReceivesSync ==
  /\ conn = "open"
  /\ conn' = "open"
  /\ toClient # <<>>
  /\ toClient' = Tail(toClient)
  /\ toHost' = toHost
  /\ Head(toClient).type = "STATE_SYNC"

\* C11: the client's GameState changes only when a STATE_SYNC is received and
\* then becomes the received state, whatever it was before (as handleSync
\* returns it); submitting input on the client sends a packet at most and
\* leaves the client's GameState as it is.
C11_ClientReplicaOnlyFromSync ==
  [][/\ clientGameState' # clientGameState => ClientReceivesSync
     /\ ClientReceivesSync =>
          /\ clientGameState' = Head(toClient).gameState
          /\ handleSync(clientGameState, Head(toClient).gameState).state = clientGameState'
          /\ handleSync(clientGameState, Head(toClient).gameState).shouldUpdate
     /\ (toHost' # toHost \/ (clientIsProcessing' /\ ~clientIsProcessing)) =>
          clientGameState' = clientGameState]_vars

\* the client took a state from a sync and has submitted an input since,
\* which is on its way to the host
C11_Witness ==
  /\ clientGameState > 0
  /\ clientMessages # <<>>
  /\ clientIsProcessing
  /\ conn = "open"
  /\ toHost # <<>>

\* C12 (as claimed): whenever the connection is open, the host awaits no
\* reply and no packet is in flight, the client's GameState is the host's.
C12_QuiescentStatesAgree ==
  (conn = "open" /\ pendingCalls = {} /\ toClient = <<>> /\ toHost = <<>>) =>
    clientGameState = hostGameState

\* C18 (as claimed): two engines built from equal GameStates and given the
\* same action return equal results and equal states, so every action has a
\* single outcome in every state the engine can be in.
C18_SameActionsSameResults ==
  \A action \in Actions :
    \A r1, r2 \in processAction(gameState, combatState, action) : r1 = r2

\* C19 (as claimed): for every GameState and action, validateAction reports
\* valid exactly when an engine freshly constructed from that GameState
\* accepts the action.
C19_ValidatorsAgree ==
  \A action \in Actions :
    validateAction(action, gameState).valid
      <=> \A r \in processAction(gameState, NewCombatState(gameState), action) :
            r.accepted

\* C20 (as claimed): no packet handed to send is lost without the sender
\* being told.  send returns nothing and never throws, so the client's
\* handleSend is told nothing: whenever it has sent an action and gone on to
\* wait for the host, the packet must be on the connection.
C20_SendNeverDropsSilently ==
  [][(clientIsProcessing' /\ ~clientIsProcessing) => Len(toHost') = Len(toHost) + 1]_vars

\* a visibility recompute: a player move, a change of radius or a direct call
Recompute ==
  \/ \E p \in Cells(3, 3) \cup {Pos(-1, 0)} : MovePlayer(p)
  \/ \E radius \in {0, 2} : SetVisionRadius(radius)
  \/ \E p \in {worldState.playerPosition, Pos(0, 0)}, radius \in {1, 8} :
       UpdateVisibility(p, radius)

\* C13: after world generation, recomputes and moves every visible tile is
\* explored, and a recompute never takes a tile's explored flag back.
C13_VisibleWithinExplored ==
  [][/\ \A p \in DOMAIN worldState'.world.tiles :
          worldState'.world.tiles[p].visible => worldState'.world.tiles[p].explored
     /\ (\E p \in DOMAIN worldState.world.tiles :
           worldState.world.tiles[p].explored /\ ~worldState'.world.tiles[p].explored)
          => ~Recompute]_vars

\* a tile seen before is out of sight and still explored, next to a tile
\* never seen
C13_Witness ==
  /\ worldState.world # NullWorld
  /\ \E p, q \in DOMAIN worldState.world.tiles :
       /\ worldState.world.tiles[p].explored
       /\ ~worldState.world.tiles[p].visible
       /\ p \notin worldState.visibleTiles
       /\ ~worldState.world.tiles[q].explored

\* a player move that changes the position
PlayerMoves ==
  /\ \E p \in Cells(3, 3) : MovePlayer(p)
  /\ worldState'.playerPosition # worldState.playerPosition

\* C14 (as claimed): after the recompute of a player move the visible tiles
\* are exactly those of the returned set; a tile seen before and not now
\* has visible = false.
C14_VisibleIsTheReturnedSet ==
  [][PlayerMoves =>
       \A p \in DOMAIN worldState'.world.tiles :
         worldState'.world.tiles[p].visible <=> p \in worldState'.visibleTiles]_vars

\* a wall tile lies on the segment from start to end, or end is not reached
\* from start over tiles that let light pass
SightBlocked(world, start, end) ==
  \/ \E m \in Between(start, end) : world.tiles[m].type = "wall"
  \/ astar({p \in Cells(world.width, world.height) : lightPasses(world, p)},
           start, end) = {<<>>}

\* C15 (as claimed): between two positions on tiles that let light pass,
\* hasLineOfSight returns false whenever a wall tile lies on the segment or
\* the end cannot be reached.
C15_NoSightThroughWalls ==
  (/\ query.op = "hasLineOfSight"
   /\ lightPasses(query.world, query.start)
   /\ lightPasses(query.world, query.goal)
   /\ SightBlocked(query.world, query.start, query.goal))
    => ~query.clear

\* the passable tiles joined to p by steps between adjacent passable tiles
RECURSIVE Joined(_, _)
Joined(world, seen) ==
  LET more == {n \in Cells(world.width, world.height) \ seen :
                 passableCallback(world, n) /\ \E c \in seen : adjacent(n, c)}
  IN IF more = {} THEN seen ELSE Joined(world, seen \cup more)

Reachable(world, start, goal) ==
  /\ passableCallback(world, start)
  /\ passableCallback(world, goal)
  /\ goal \in Joined(world, {start})

\* C16 (as claimed): findPath returns the empty sequence when the goal cannot
\* be reached over passable tiles, and otherwise a sequence without the
\* start that ends at the goal, holds passable tiles only and moves between
\* adjacent tiles (nothing, when start and goal are the same tile).
C16_PathOnlyOverPassableTiles ==
  query.op = "findPath" =>
    IF ~Reachable(query.world, query.start, query.goal) \/ query.start = query.goal
      THEN query.path = <<>>
      ELSE /\ query.path # <<>>
           /\ query.path[Len(query.path)] = query.goal
           /\ \A i \in 1..Len(query.path) :
                /\ query.path[i] # query.start
                /\ passableCallback(query.world, query.path[i])
                /\ adjacent(query.path[i],
                            IF i = 1 THEN query.start ELSE query.path[i - 1])

SameCall(a, b) ==
  /\ a.style # "none"
  /\ a.style = b.style
  /\ a.width = b.width
  /\ a.height = b.height
  /\ a.seed = b.seed

SameGrid(a, b) ==
  \A p \in DOMAIN a.tiles :
    /\ a.tiles[p].type = b.tiles[p].type
    /\ a.tiles[p].resources = b.tiles[p].resources

\* C17 (as claimed): two calls of a generator with the same width, height
\* and seed string return grids with the same tile types and resources.
C17_SameSeedSameWorld == SameCall(generated, earlier) => SameGrid(generated, earlier)

\* C17 (amended): two calls of a generator with the same width, height and
\* non-empty seed string return grids with the same tile types and
\* resources, whatever the shared generator's state and the time are.
C17_SameGivenSeedSameWorld ==
  (SameCall(generated, earlier) /\ generated.seed # <<>>) => SameGrid(generated, earlier)

\* the same call made again at another time, the shared generator having
\* been used in between
C17_Witness ==
  /\ SameCall(generated, earlier)
  /\ generated.seed = <<"4", "2">>
  /\ generated.elsewhere


\* C21 (as claimed): MessageValidator.validate accepts a message only if its
\* type is one of the kinds of the GameMessage union and the message carries
\* every field of that kind; no message of another type is accepted.
C21_OnlyProtocolMessagesAreValid ==
  (invoked.name = "validate" /\ returned = TRUE) =>
    LET message == invoked.args[1] IN
      /\ message.type.t = "string"
      /\ message.type.v \in GameMessageTypes
      /\ \A f \in GameMessageFields[message.type.v] : message.fields[f] # Undefined

\* C23 (as claimed): calculateDamage(10, 2, false) returns a value between 8
\* and 12 inclusive for every variance roll.
C23_DamageAlwaysEightToTwelve ==
  (/\ invoked.name = "calculateDamage"
   /\ invoked.args[1] = 10 /\ invoked.args[2] = 20 /\ ~invoked.args[3]) =>
    (returned >= 8 /\ returned <= 12)


\* the damage C22 states, in whole points: v = 0.2 * (2k - RandDen) / RandDen
\* is the variance, the defense is given in tenths.  The damage grows with v
\* by less than one point per step of k, so the damages for some v in
\* [-0.2, 0.2] are the whole numbers from the damage at k = 0 to that at
\* k = RandDen.
C22_Damage(k, targetDefense10, isCritical) ==
  LET reduced10 == 100 * RandDen + 20 * (2 * k - RandDen) - targetDefense10 * RandDen
      atLeastOne10 == Max(10 * RandDen, reduced10)
  IN IF isCritical THEN (atLeastOne10 * 3) \div (20 * RandDen)
                   ELSE atLeastOne10 \div (10 * RandDen)

\* C22: a hit that is no jam and no execution deals
\* floor(max(1, 10 * (1 + v) - targetDefense) * (1.5 if critical else 1)) for a
\* variance v in [-0.2, 0.2], targetDefense being the defense processAttack
\* passes for the target; the target's hp drops by that amount, floored at 0;
\* with v = 0, no critical and defense 2 the damage is exactly 8.
C22_HitDealsFormulaDamage ==
  [][/\ (accepted' /\ results'[1].type = "damage" /\ results'[1].success) =>
          LET hit == results'[1]
              i == FindEnemy(gameState.enemies, hit.targetId)
              target == gameState.enemies[i]
              targetDefense10 == IF target.maxHp > 50 THEN target.maxHp ELSE 20
          IN /\ hit.amount >= C22_Damage(0, targetDefense10, hit.critical)
             /\ hit.amount <= C22_Damage(RandDen, targetDefense10, hit.critical)
             /\ IF gameState'.enemies = <<>>
                  THEN target.hp - hit.amount <= 0
                  ELSE gameState'.enemies[i].hp = Max(0, target.hp - hit.amount)
     /\ RandDen % 2 = 0 => calculateDamage(10, 20, FALSE, RandDen \div 2) = 8]_vars

\* a critical hit has wounded the first enemy
C22_Witness ==
  /\ accepted
  /\ results[1].type = "damage" /\ results[1].success /\ results[1].critical
  /\ gameState.enemies # <<>>
  /\ gameState.enemies[1].hp > 0
  /\ gameState.enemies[1].hp = gameState.enemies[1].maxHp - results[1].amount


\* an engine that has just been constructed from its GameState
FreshEngine == combatState = NewCombatState(gameState)

\* the first result of the call just made is that of an attack
AttackMade == accepted' /\ results'[1].type \in {"damage", "jam", "execution"}

\* C24 (as claimed): the first result of an attack on a live enemy, processed
\* by an engine freshly constructed from an initiateCombat state, is a
\* successful damage result with amount > 0.
C24_FirstAttackDealsDamage ==
  [][(FreshEngine /\ AttackMade) =>
       /\ results'[1].success
       /\ results'[1].type = "damage"
       /\ results'[1].amount > 0]_vars

\* the skill an attack uses, from the weapon held
RelevantSkill ==
  IF isFirearm(IF gameState.equippedWeapon = NoWeapon THEN "Fists"
               ELSE gameState.equippedWeapon)
    THEN "Firearms" ELSE "Melee"

\* C25 (as claimed): after every attack that rolls a critical hit, an
\* execution included, with the relevant skill at a level L < 10 that skill is
\* L + 1; no skill level ever decreases or exceeds 10.
C25_CriticalGrowsSkill ==
  [][/\ (AttackMade /\ results'[1].critical /\ gameState.skills[RelevantSkill] < 10) =>
          gameState'.skills[RelevantSkill] = gameState.skills[RelevantSkill] + 1
     /\ \A name \in DOMAIN gameState.skills :
          /\ gameState'.skills[name] >= gameState.skills[name]
          /\ gameState'.skills[name] <= 10]_vars

\* the attack just made killed its target with a firearm at Firearms >= 8
FirearmKill ==
  /\ AttackMade
  /\ results'[1].type = "damage" /\ results'[1].success
  /\ RelevantSkill = "Firearms" /\ gameState.skills["Firearms"] >= 8
  /\ LET target == gameState.enemies[FindEnemy(gameState.enemies, results'[1].targetId)]
     IN target.hp - results'[1].amount <= 0

\* C26 (as claimed): a killing attack with a firearm at Firearms >= 8 gets its
\* AP back: from every AP value 1..maxActionPoints, the AP after the action
\* (before any end-of-turn reset) is the AP before it, and at most
\* maxActionPoints.
C26_FirearmKillRefundsAP ==
  [][FirearmKill =>
       /\ apAfterDeduct' = combatState.playerActionPoints
       /\ apAfterDeduct' <= maxActionPoints]_vars


\* the call just made ran the enemy turn: the action brought the AP to 0
EnemyTurnRan == accepted' /\ apAfterDeduct' <= 0

\* the player was defending when the enemy turn of the call just made began
Defended == combatState.defendActive \/ results'[1].type = "defend"

\* the base damage of the enemy of that name: 15 when its maxHp > 50, else 8
EnemyBase(targetName) ==
  IF \E i \in 1..Len(gameState.enemies) :
       gameState.enemies[i].name = targetName /\ gameState.enemies[i].maxHp > 50
    THEN 15 ELSE 8

\* the positions of the enemy attacks that dealt damage, in the results just returned
EnemyHits == {j \in 1..Len(results') : results'[j].type = "enemy_attack" /\ results'[j].success}

\* the damage of an attack made with the base halved and floored, then varied
\* by u = 0.8 + 0.4 * k / RandDen, floored, and at least 1; it grows with k by
\* less than one point per step, so the damages for some u in [0.8, 1.2) are
\* the whole numbers from the damage at k = 0 to that at k = RandDen - 1
HalvedBaseDamage(base, k) ==
  Max(1, ((base \div 2) * (8 * RandDen + 4 * k)) \div (10 * RandDen))

C28_ClaimedDamage(base, k, defended) ==
  LET varied10 == Max(10 * RandDen, base * (8 * RandDen + 4 * k))
  IN IF defended THEN varied10 \div (20 * RandDen) ELSE varied10 \div (10 * RandDen)

\* the enemy damage with the base reduced first:
\* max(1, floor(floor(base * (0.5 or 1)) * u))
C28_ReducedBaseDamage(base, k, defended) ==
  Max(1, ((IF defended THEN base \div 2 ELSE base) * (8 * RandDen + 4 * k))
           \div (10 * RandDen))

\* the player's hp (in half points) when the enemy turn of the call just made
\* began: the hp before the call, raised by a heal made in the call
HpAtEnemyTurn ==
  IF results'[1].type = "heal" /\ results'[1].success
    THEN Min(gameState.maxHp, gameState.hp + results'[1].amount)
    ELSE gameState.hp

\* the damage of the enemy attacks from position j on in a result list
RECURSIVE EnemyDamageFrom(_, _)
EnemyDamageFrom(res, j) ==
  IF j > Len(res) THEN 0
  ELSE (IF res[j].type = "enemy_attack" /\ res[j].success THEN res[j].amount ELSE 0)
         + EnemyDamageFrom(res, j + 1)

\* C28 (as claimed): an attacking enemy deals
\* floor(max(1, base * u) * (0.5 if the player defended else 1)), base 8 (15
\* for maxHp > 50), u in [0.8, 1.2), and the player's hp drops by it, floored at 0.
C28_EnemyDamageHalvedLast ==
  [][EnemyTurnRan =>
       /\ \A j \in EnemyHits :
            LET base == EnemyBase(results'[j].targetName) IN
              /\ results'[j].amount >= C28_ClaimedDamage(base, 0, Defended)
              /\ results'[j].amount <= C28_ClaimedDamage(base, RandDen - 1, Defended)
       /\ gameState'.hp = Max(0, HpAtEnemyTurn - Pts(EnemyDamageFrom(results', 1)))]_vars

\* C28 (amended): an attacking enemy deals
\* max(1, floor(floor(base * (0.5 if the player defended else 1)) * u)), base 8
\* (15 for maxHp > 50), u in [0.8, 1.2), and the player's hp drops by it,
\* floored at 0.
C28_EnemyDamageHalvedFirst ==
  [][EnemyTurnRan =>
       /\ \A j \in EnemyHits :
            LET base == EnemyBase(results'[j].targetName) IN
              /\ results'[j].amount >= C28_ReducedBaseDamage(base, 0, Defended)
              /\ results'[j].amount <= C28_ReducedBaseDamage(base, RandDen - 1, Defended)
       /\ gameState'.hp = Max(0, HpAtEnemyTurn - Pts(EnemyDamageFrom(results', 1)))]_vars

\* a Tank hit the defending player for 5, and the player lost 5 points
C28_Witness ==
  /\ accepted
  /\ apAfterDeduct = 0
  /\ results[1].type = "defend"
  /\ Len(results) = 2
  /\ results[2].type = "enemy_attack" /\ results[2].targetName = "Tank"
  /\ results[2].amount = 5
  /\ gameState.hp = Pts(20) - Pts(5)


\* the hp of enemy i when the enemy turn of the call just made began
HpAtTurn(i) ==
  LET first == results'[1] IN
  IF first.targetId # gameState.enemies[i].id THEN gameState.enemies[i].hp
  ELSE IF first.type = "execution" THEN 0
  ELSE IF first.type = "damage" /\ first.success
    THEN Max(0, gameState.enemies[i].hp - first.amount)
  ELSE gameState.enemies[i].hp

\* enemy i was stunned when that enemy turn began: before the call, or by it
StunnedAtTurn(i) ==
  \/ gameState.enemies[i].status = "Stunned"
  \/ \E j \in 1..Len(results') :
       results'[j].type = "stun" /\ results'[j].targetId = gameState.enemies[i].id

\* the enemies with hp > 0 when that enemy turn began, in their order
AliveAtTurn ==
  LET alive(i) == HpAtTurn(i) > 0
  IN SelectSeq([i \in 1..Len(gameState.enemies) |-> i], alive)

\* the results of the enemies' turn, in their order
EnemyAttackResults ==
  LET isEnemyAttack(r) == r.type = "enemy_attack"
  IN SelectSeq(results', isEnemyAttack)

ItemUsed == accepted' /\ results'[1].type = "heal"

\* the heal of C30 in half points: 25, or 25 plus 50% at Medical >= 4
C30_Heal == IF gameState.skills["Medical"] >= 4 THEN 75 ELSE 50

\* C30: use_item on a held healing item raises the hp by 25 (37.5 at Medical
\* >= 4), capped at maxHp, and removes exactly one occurrence of the item, the
\* other items keeping their order; on a held item that does not heal it
\* leaves hp and inventory as they are and reports the failed use.  (An enemy
\* turn that the same call runs takes its damage off afterwards.)
C30_UseItemHealsAndConsumes ==
  [][ItemUsed =>
       IF results'[1].success
         THEN /\ results'[1].amount = C30_Heal
              /\ HpAtEnemyTurn = Min(gameState.maxHp, gameState.hp + C30_Heal)
              /\ gameState'.hp = Max(0, HpAtEnemyTurn - Pts(EnemyDamageFrom(results', 1)))
              /\ \E i \in 1..Len(gameState.inventory) :
                   /\ isHealingItem(gameState.inventory[i])
                   /\ Len(gameState'.inventory) = Len(gameState.inventory) - 1
                   /\ \A j \in 1..Len(gameState'.inventory) :
                        gameState'.inventory[j] =
                          gameState.inventory[IF j < i THEN j ELSE j + 1]
         ELSE /\ gameState'.inventory = gameState.inventory
              /\ gameState'.hp = Max(0, gameState.hp - Pts(EnemyDamageFrom(results', 1)))
              /\ results'[1].amount = NoAmount]_vars

\* one of two Bandages was used at 90 of 100 hp: the heal was capped and the
\* second Bandages is still held
C30_Witness ==
  /\ accepted
  /\ results[1].type = "heal" /\ results[1].success
  /\ apAfterDeduct > 0
  /\ gameState.hp = gameState.maxHp
  /\ gameState.inventory = <<"Flashlight", "Bandages">>


\* C31 (as claimed): for an enemy in Melee range the damage the planner
\* computes is the damage of the engine's enemy turn for the same enemy and
\* the same variance roll.
C31_PlannerDamageIsEngineDamage ==
  invoked.name = "createAttackAction" =>
    returned = enemyDamage(invoked.args[1], FALSE, invoked.args[2])


\* -------------------------------------------------------------------- C32
Directions == {"north", "south", "east", "west"}

\* the tile the player would step onto is outside the grid, a wall or water
Blocked(direction) ==
  LET p == movePlayerDirection(worldState, direction)
  IN /\ worldState.world # NullWorld
     /\ \/ ~inBounds(worldState.world, p)
        \/ worldState.world.tiles[p].type \in {"wall", "water"}

\* C32: an exploration move in a direction whose target tile is out of
\* bounds, a wall or water is rejected: the player's position, the visible
\* set and the tiles' explored flags are unchanged, the step counter is not
\* incremented, no encounter is rolled and the result carries no game-state
\* updates.
C32_BlockedMoveChangesNothing ==
  [][\A direction \in Directions :
       (exploration'.last.action = direction /\ Blocked(direction)) =>
         /\ worldState'.playerPosition = worldState.playerPosition
         /\ worldState'.visibleTiles = worldState.visibleTiles
         /\ \A p \in DOMAIN worldState.world.tiles :
              worldState'.world.tiles[p].explored = worldState.world.tiles[p].explored
         /\ exploration'.stepsExplored = exploration.stepsExplored
         /\ ~exploration'.last.encounterRolled
         /\ exploration'.last.gameStateUpdates = {}]_vars

\* a move into a wall was rejected after an earlier step was made
C32_Witness ==
  /\ exploration.last.action \in Directions
  /\ Blocked(exploration.last.action)
  /\ exploration.last.narrative = "cannot move"
  /\ exploration.stepsExplored > 0


\* -------------------------------------------------------------------- C33
\* C33: after any sequence of recordPing and recordPong calls on a clock
\* that never runs backwards, in which each pong answers an earlier ping,
\* getLatency() is the time of the last pong minus the time of the ping that
\* pong answered, and is not negative.
C33_LatencyIsPongMinusItsPing ==
  \A ping \in monitor.answered :
    /\ getLatency(monitor) = monitor.lastPongTime - ping
    /\ getLatency(monitor) >= 0

\* -------------------------------------------------------------------- C37
\* C37: the pending identifier is null or the identifier of an entry of the
\* queue, and whenever the queue holds an action that was not acknowledged,
\* getPending() returns one of the queued actions (so that after the pending
\* action is dequeued another queued action is pending).
C37_PendingWheneverQueued ==
  /\ \/ actionQueue.pendingActionId = NoActionId
     \/ actionQueue.pendingActionId \in DOMAIN actionQueue.queue
  /\ DOMAIN actionQueue.queue # {} =>
       /\ getPending(actionQueue) # NoPending
       /\ getPending(actionQueue).actionId \in DOMAIN actionQueue.queue


\* -------------------------------------------------------------------- C34
\* C34: the defense subtracted in a player attack is the defense stat of
\* the target's zombie type (Walker 2, Runner 1, Tank 8, Spitter 3,
\* Screamer 4): the amount of a hit that is no jam and no execution is
\* floor(max(1, 10 * (1 + v) - defense) * (1.5 if critical else 1)) for that
\* stat and a variance v in [-0.2, 0.2].
C34_DefenseIsTheTypesStat ==
  (accepted /\ results # <<>> /\ results[1].type = "damage" /\ results[1].success) =>
    LET hit == results[1]
        targetDefense10 == 10 * zombieTypes[hit.targetName].defense
    IN /\ hit.amount >= C22_Damage(0, targetDefense10, hit.critical)
       /\ hit.amount <= C22_Damage(RandDen, targetDefense10, hit.critical)


\* -------------------------------------------------------------------- C35
\* C35: after every processAction call, accepted or rejected, the
\* GameState's actionPoints equals the CombatState's playerActionPoints.
C35_ActionPointsAgree ==
  gameState.actionPoints = combatState.playerActionPoints

\* a firearm kill was refunded an action point, and a call was rejected
C35_Witness ==
  /\ accepted
  /\ \E i \in 1..Len(results) : results[i].type = "ap_refund"
  /\ combatState.playerActionPoints > 0


\* -------------------------------------------------------------------- C36
RECURSIVE TotalEnemyHp(_)
TotalEnemyHp(enemies) ==
  IF enemies = <<>> THEN 0 ELSE Max(0, Head(enemies).hp) + TotalEnemyHp(Tail(enemies))

\* what is left of the combat, in half points: the player's hp, the most the
\* inventory can still heal (37.5 an item), the enemies' hp, and one for
\* every stun that is still to be slept off
CombatRank(g) ==
  g.hp + 75 * Len(g.inventory) + Pts(TotalEnemyHp(g.enemies))
    + Cardinality({i \in 1..Len(g.enemies) : isStunned(g.enemies[i].status)})

\* what is left of the player's turn
TurnRank(g, c) == c.playerActionPoints + Cardinality(AliveEnemies(g.enemies))

Nested(g) == <<g.enemies, g.inventory, g.skills>>

\* C38: processAction never mutates the GameState passed to the constructor
\* nor a GameState it returned earlier: their enemies (hp, status, range),
\* inventory and skills read after the call as they read before it.
C38_ProcessActionIsPure ==
  [][/\ Nested(held'.passed) = Nested(held.passed)
     /\ Nested(held'.snapshot) = Nested(gameState)]_vars


\* -------------------------------------------------------------------- C39
\* the message list holds the host's reply (or its error message) to text
Replied(messages, text) ==
  \E j \in 1..Len(messages) :
    messages[j].role \in {"model", "system"} /\ messages[j].text = text

\* C39: the client's processing flag, set when the client sends an action,
\* is cleared only by a STATE_SYNC sent after the host has finished that
\* action: the sync's messages hold the host's reply to the client's action,
\* and no action of the client without its reply.
C39_FlagClearedByTheActionsResult ==
  [][(clientIsProcessing /\ ~clientIsProcessing') =>
       LET messages == Head(toClient).messages
           sent == {i \in 1..Len(messages) :
                      messages[i].role = "user" /\ messages[i].text.by = "client"}
       IN /\ \E j \in 1..Len(messages) :
               messages[j].text.by = "client" /\ Replied(messages, messages[j].text)
          /\ \A i \in sent : Replied(messages, messages[i].text)]_vars


\* -------------------------------------------------------------------- C40
NotInCombat == [valid |-> FALSE, reason |-> "Not in combat phase"]

\* C40 (as claimed): whenever GameState.phase is not combat, validateAction
\* reports invalid with reason 'Not in combat phase' for every combat action
\* of every type.
C40_NoActionOutsideCombat ==
  gameState.phase # "combat" =>
    \A action \in Actions : validateAction(action, gameState) = NotInCombat

\* C40 (amended): whenever GameState.phase is not combat, validateAction
\* reports invalid with reason 'Not in combat phase' for every combat action
\* of every type other than flee.
C40_NoActionButFleeOutsideCombat ==
  gameState.phase # "combat" =>
    \A action \in Actions :
      action.type # "flee" => validateAction(action, gameState) = NotInCombat

\* the combat has ended with action points left
C40_Witness ==
  /\ accepted
  /\ gameState.phase # "combat"
  /\ gameState.actionPoints >= 1

====
